---------------------------- MODULE Spec2Model ----------------------------
(***************************************************************************)
(* A model of the construction-standards query engine                      *)
(* (backend/services/query_engine.py) and of the collaborators it calls.   *)
(*                                                                         *)
(* Strings of the program are sequences of one-character strings, so that  *)
(* the normalisations of the reference resolver (case folding, separator   *)
(* replacement, regular-expression stripping, substring search) are        *)
(* computed character by character as the code computes them.              *)
(***************************************************************************)
EXTENDS Integers, Sequences, FiniteSets, TLC

(***************************************************************************)
(* Characters and the str methods the code uses.                           *)
(***************************************************************************)
UpperChars == <<"A","B","C","D","E","F","G","H","I","J","K","L","M",
                "N","O","P","Q","R","S","T","U","V","W","X","Y","Z">>

LowerChars == <<"a","b","c","d","e","f","g","h","i","j","k","l","m",
                "n","o","p","q","r","s","t","u","v","w","x","y","z">>

DigitChars == <<"0","1","2","3","4","5","6","7","8","9">>

Range(f) == {f[i] : i \in DOMAIN f}

IsDigit(c) == c \in Range(DigitChars)

IsLowerLetter(c) == c \in Range(LowerChars)

\* str.lower()
Lower(s) ==
    [i \in 1..Len(s) |->
        IF s[i] \in Range(UpperChars)
        THEN LowerChars[CHOOSE k \in DOMAIN UpperChars : UpperChars[k] = s[i]]
        ELSE s[i]]

\* str.upper()
Upper(s) ==
    [i \in 1..Len(s) |->
        IF IsLowerLetter(s[i])
        THEN UpperChars[CHOOSE k \in DOMAIN LowerChars : LowerChars[k] = s[i]]
        ELSE s[i]]

\* s[i:] with a 0-based index i >= 0
From(s, i) == SubSeq(s, i + 1, Len(s))

\* str.startswith
StartsWith(s, p) == Len(p) <= Len(s) /\ SubSeq(s, 1, Len(p)) = p

\* the 0-based positions at which needle occurs in hay
Occurrences(hay, needle) ==
    {i \in 0..(Len(hay) - Len(needle)) :
        SubSeq(hay, i + 1, i + Len(needle)) = needle}

\* needle in hay
Contains(hay, needle) == Occurrences(hay, needle) # {}

Min(S) == CHOOSE x \in S : \A y \in S : x <= y

Max(S) == CHOOSE x \in S : \A y \in S : x >= y

\* str.find: the lowest position, or -1
Find(hay, needle) ==
    IF Contains(hay, needle) THEN Min(Occurrences(hay, needle)) ELSE -1

RECURSIVE Concat(_)
\* "".join of a sequence of strings
Concat(ss) == IF ss = <<>> THEN <<>> ELSE Head(ss) \o Concat(Tail(ss))

\* str.replace(a, b) for a one-character a and any string b
Replace(s, a, b) ==
    Concat([i \in 1..Len(s) |-> IF s[i] = a THEN b ELSE <<s[i]>>])

\* str.lstrip(chars)
LStrip(s, chars) ==
    LET keep == {i \in 1..Len(s) : s[i] \notin chars}
    IN  IF keep = {} THEN <<>> ELSE SubSeq(s, Min(keep), Len(s))

\* str.rstrip(chars)
RStrip(s, chars) ==
    LET keep == {i \in 1..Len(s) : s[i] \notin chars}
    IN  IF keep = {} THEN <<>> ELSE SubSeq(s, 1, Max(keep))

\* str.strip()
Strip(s) == LStrip(RStrip(s, {" "}), {" "})

\* s[a:b] of Python for a slice start that may be negative (b = len(s))
PySliceFrom(s, a) ==
    LET n == Len(s)
        lo == IF a < 0 THEN (IF n + a < 0 THEN 0 ELSE n + a)
              ELSE (IF a > n THEN n ELSE a)
    IN  From(s, lo)

(***************************************************************************)
(* The regular expressions of the reference resolver.                      *)
(***************************************************************************)
\* re.sub(r'\([^)]*\)$', '', s): a trailing parenthetical qualifier is cut
\* at the leftmost "(" after which no ")" occurs before the final one.
StripParen(s) ==
    LET n == Len(s)
        starts == {i \in 1..n :
                     /\ s[i] = "("
                     /\ s[n] = ")"
                     /\ i < n
                     /\ \A j \in (i + 1)..(n - 1) : s[j] # ")"}
    IN  IF starts = {} THEN s ELSE SubSeq(s, 1, Min(starts) - 1)

\* whether t, taken whole, matches [_:]?\d{4}(\+\w+)?, \w being a letter,
\* a digit or the underscore
IsYearSuffix(t) ==
    LET u == IF Len(t) > 0 /\ t[1] \in {"_", ":"} THEN Tail(t) ELSE t
        r == From(u, 4)
    IN  /\ Len(u) >= 4
        /\ \A i \in 1..4 : IsDigit(u[i])
        /\ \/ r = <<>>
           \/ /\ Len(r) >= 2
              /\ r[1] = "+"
              /\ \A i \in 2..Len(r) :
                    \/ IsDigit(r[i]) \/ IsLowerLetter(r[i])
                    \/ r[i] \in Range(UpperChars) \/ r[i] = "_"

\* re.sub(r'[_:]?\d{4}(\+\w+)?$', '', c): the leftmost suffix that matches
StripYear(c) ==
    LET starts == {i \in 1..Len(c) : IsYearSuffix(SubSeq(c, i, Len(c)))}
    IN  IF starts = {} THEN c ELSE SubSeq(c, 1, Min(starts) - 1)

\* re.sub(r'[^a-z0-9\-]', '', v)
KeepAlnumHyphen(v) ==
    SelectSeq(v, LAMBDA ch : IsLowerLetter(ch) \/ IsDigit(ch) \/ ch = "-")

\* re.sub(r'[^a-z0-9]', '', v)
Canonical(v) == SelectSeq(v, LAMBDA ch : IsLowerLetter(ch) \/ IsDigit(ch))

(***************************************************************************)
(* Python values.  None and the empty string are both falsy and the code   *)
(* only ever tests the results of the resolver for truth, so one value     *)
(* stands for both.  A dict is a function; where the code iterates a dict  *)
(* the model keeps its insertion order as a sequence of keys.              *)
(***************************************************************************)
None == <<>>

EmptyDict == <<>>

\* d[k] = v
Put(d, k, v) == [x \in (DOMAIN d) \cup {k} |-> IF x = k THEN v ELSE d[x]]

\* d.setdefault(k, v)
SetDefault(d, k, v) == IF k \in DOMAIN d THEN d ELSE Put(d, k, v)

\* d.get(k), None when absent
Get(d, k) == IF k \in DOMAIN d THEN d[k] ELSE None

\* the positions of a sequence whose element satisfies nothing but order
Indices(seq) == 1..Len(seq)

RECURSIVE SetToSeq(_)
\* a fixed enumeration of a finite set
SetToSeq(S) ==
    IF S = {} THEN <<>>
    ELSE LET x == CHOOSE y \in S : TRUE IN <<x>> \o SetToSeq(S \ {x})

\* a sequence rotated left by r places
Rotate(seq, r) ==
    IF seq = <<>> THEN seq
    ELSE LET k == r % Len(seq)
         IN  SubSeq(seq, k + 1, Len(seq)) \o SubSeq(seq, 1, k)

(***************************************************************************)
(* QueryEngine._code_variants: the set of normalised variants of a         *)
(* document code.  The code returns list(set): the order of the list is    *)
(* that of a Python set of strings, which depends on the hash seed of the  *)
(* process (see VariantList).                                              *)
(***************************************************************************)
SeparatorForms(v) ==
    { Replace(v, "_", <<"-">>), Replace(v, "-", <<"_">>),
      Replace(v, " ", <<"_">>), Replace(v, " ", <<"-">>),
      Replace(v, " ", <<>>) }

CodeVariants(code) ==
    LET c       == Strip(Lower(code))
        no_year == StripYear(c)
        first   == {c, no_year}
        second  == first \cup UNION {SeparatorForms(v) : v \in first}
    IN  second \cup {KeepAlnumHyphen(v) : v \in second}

\* list(variants) under hash seed `seed`
VariantList(code, seed) == Rotate(SetToSeq(CodeVariants(code)), seed)

(***************************************************************************)
(* QueryEngine._build_ref_index                                            *)
(***************************************************************************)
\* the body of the loop over all_keys
IndexKey(idx, key) ==
    LET a        == Put(idx, key, key)
        b        == Put(a, Replace(key, ".", <<"_">>), key)
        stripped == StripParen(key)
    IN  IF stripped # key
        THEN SetDefault(SetDefault(b, stripped, key),
                        Replace(stripped, ".", <<"_">>), key)
        ELSE b

RECURSIVE IndexKeys(_, _)
IndexKeys(idx, keys) ==
    IF keys = <<>> THEN idx
    ELSE IndexKeys(IndexKey(idx, Head(keys)), Tail(keys))

\* self._doc_code_to_prefix[variant] = prefix on an insertion-ordered dict,
\* kept as a sequence of <<variant, prefix>> pairs
PutOrdered(pairs, variant, prefix) ==
    IF \E i \in Indices(pairs) : pairs[i][1] = variant
    THEN [i \in Indices(pairs) |->
            IF pairs[i][1] = variant THEN <<variant, prefix>> ELSE pairs[i]]
    ELSE Append(pairs, <<variant, prefix>>)

RECURSIVE PutVariants(_, _, _)
PutVariants(pairs, variants, prefix) ==
    IF variants = <<>> THEN pairs
    ELSE PutVariants(PutOrdered(pairs, Head(variants), prefix),
                     Tail(variants), prefix)

RECURSIVE DocCodeToPrefix(_, _, _)
\* the loop over self.store.documents.values(); docs is the sequence of
\* document records in insertion order
DocCodeToPrefix(pairs, docs, seed) ==
    IF docs = <<>> THEN pairs
    ELSE LET doc == Head(docs)
         IN  IF doc.key_prefix = <<>>
             THEN DocCodeToPrefix(pairs, Tail(docs), seed)
             ELSE DocCodeToPrefix(
                      PutVariants(pairs, VariantList(doc.code, seed),
                                  doc.key_prefix),
                      Tail(docs), seed)

(***************************************************************************)
(* QueryEngine._resolve_ref_simple and QueryEngine._resolve_ref, as        *)
(* functions of the cached index (idx, d2p) and of the live store          *)
(* (doc_prefixes: key_prefix of every document, section_keys: the keys of  *)
(* store.sections, both in insertion order).                               *)
(***************************************************************************)
ResolveRefSimple(idx, key) ==
    LET normalized == Replace(key, ".", <<"_">>)
        stripped   == StripParen(key)
    IN  IF key \in DOMAIN idx THEN idx[key]
        ELSE IF normalized \in DOMAIN idx THEN idx[normalized]
        ELSE IF stripped \in DOMAIN idx THEN idx[stripped]
        ELSE None

\* step 4, the double-prefix correction: the first prefix that gives a hit
DoublePrefix(idx, doc_prefixes, ref_key) ==
    LET hits == {i \in Indices(doc_prefixes) :
                    LET prefix == doc_prefixes[i]
                    IN  /\ StartsWith(ref_key, prefix \o <<"_">> \o prefix)
                        /\ From(ref_key, Len(prefix) + 1) \in DOMAIN idx}
    IN  IF hits = {} THEN None
        ELSE idx[From(ref_key, Len(doc_prefixes[Min(hits)]) + 1)]

\* the condition of the cross-document loop for one code variant
VariantMatches(code_variant, ref_key) ==
    LET ref_lower     == Lower(ref_key)
        ref_canonical == Canonical(ref_lower)
        cv_canonical  == Canonical(code_variant)
    IN  \/ Contains(ref_lower, code_variant)
        \/ cv_canonical = ref_canonical
        \/ Contains(ref_canonical, cv_canonical)

\* the first section key of the live store that starts with prefix
FirstWithPrefix(section_keys, prefix) ==
    LET hits == {i \in Indices(section_keys) :
                    StartsWith(section_keys[i], prefix)}
    IN  IF hits = {} THEN None ELSE section_keys[Min(hits)]

\* the position in d2p of the first variant that matches, 0 when none does
FirstMatch(d2p, ref_key) ==
    LET hits == {i \in Indices(d2p) : VariantMatches(d2p[i][1], ref_key)}
    IN  IF hits = {} THEN 0 ELSE Min(hits)

\* step 5, the cross-document match (the loop breaks after the first match)
CrossDocument(idx, d2p, section_keys, ref_key) ==
    LET m == FirstMatch(d2p, ref_key)
    IN  IF m = 0 THEN None
        ELSE LET code_variant == d2p[m][1]
                 prefix       == d2p[m][2]
                 at           == Find(Lower(ref_key), code_variant)
                 remainder    == LStrip(PySliceFrom(ref_key, at + Len(code_variant)),
                                        {"_", ":", "/", " "})
                 resolved     == IF remainder # <<>>
                                 THEN ResolveRefSimple(idx, prefix \o <<"_">> \o remainder)
                                 ELSE None
             IN  IF resolved # None THEN resolved
                 ELSE FirstWithPrefix(section_keys, prefix)

ResolveRef(idx, d2p, doc_prefixes, section_keys, ref_key) ==
    LET normalized    == Replace(ref_key, ".", <<"_">>)
        stripped      == StripParen(ref_key)
        stripped_norm == Replace(stripped, ".", <<"_">>)
        doubled       == DoublePrefix(idx, doc_prefixes, ref_key)
    IN  IF ref_key \in DOMAIN idx THEN idx[ref_key]
        ELSE IF normalized \in DOMAIN idx THEN idx[normalized]
        ELSE IF stripped \in DOMAIN idx THEN idx[stripped]
        ELSE IF stripped_norm \in DOMAIN idx THEN idx[stripped_norm]
        ELSE IF doubled # None THEN doubled
        ELSE CrossDocument(idx, d2p, section_keys, ref_key)

(***************************************************************************)
(* QueryEngine._collect_missing_docs                                       *)
(***************************************************************************)
\* the length of the longest prefix of s made of characters of a class
PrefixLen(s, class) ==
    LET stop == {i \in 1..Len(s) : s[i] \notin class}
    IN  IF stop = {} THEN Len(s) ELSE Min(stop) - 1

\* re.match(r'((?:en[v]?|iso|bs)\s*[-_]?\s*[\d][\d\-_.:\s+a-z]*)', s):
\* group(1), or None when the pattern does not match at the start of s
DocCodeMatch(s) ==
    LET \* \s (the whitespace the model's strings can hold)
        space == {" "}
        \* the characters of the class [\d\-_.:\s+a-z]
        doc_code_chars == Range(DigitChars) \cup Range(LowerChars)
                          \cup {"-", "_", ".", ":", "+"} \cup space
        p == IF StartsWith(s, <<"e","n","v">>) THEN 3
             ELSE IF StartsWith(s, <<"e","n">>) THEN 2
             ELSE IF StartsWith(s, <<"i","s","o">>) THEN 3
             ELSE IF StartsWith(s, <<"b","s">>) THEN 2
             ELSE 0
        r1 == From(s, p)
        r2 == From(r1, PrefixLen(r1, space))
        r3 == IF r2 # <<>> /\ r2[1] \in {"-", "_"} THEN Tail(r2) ELSE r2
        r4 == From(r3, PrefixLen(r3, space))
    IN  IF p = 0 \/ r4 = <<>> \/ ~IsDigit(r4[1]) THEN None
        ELSE LET tail == PrefixLen(Tail(r4), doc_code_chars)
             IN  SubSeq(s, 1, (Len(s) - Len(r4)) + 1 + tail)

\* the document code the code extracts from an unresolved reference
\* (None when the reference does not look like a document code)
MissingDocCode(ref_key) ==
    LET m == DocCodeMatch(Lower(ref_key))
    IN  IF m = None THEN None
        ELSE Upper(RStrip(Strip(m), {"_", "-", ":", " "}))

(***************************************************************************)
(* Program constants.                                                      *)
(***************************************************************************)
MAX_REFERENCE_DEPTH == 3

MAX_EXPANSION_ROUNDS == 5

RELEVANCE_BATCH_SIZE == 4

CONVERSATION_CONTEXT_LIMIT == 10

\* top_k = 10 of the first vector search
INITIAL_TOP_K == 10

\* top_k += 10 of an expansion round
TOP_K_STEP == 10

\* matches[:20] of _keyword_search
KEYWORD_HIT_LIMIT == 20

\* content[:500] of the relevance fallback
FALLBACK_CONTENT_CHARS == 500

\* the hard cap on the synthesised answer
ANSWER_CHAR_CAP == 10000

\* score += 5 for a keyword in a title
TITLE_WEIGHT == 5

(***************************************************************************)
(* Bounds of the model.                                                    *)
(***************************************************************************)
\* the largest vector index: enough for a sixth window of 60 hits
MaxIndex == 60

\* the hash seeds of the process (orders of Python sets of strings)
MaxSeed == 1

\* the milliseconds the wall clock may advance during the model's runs
MaxClock == 1

\* the queries one engine instance serves in SpecRepeat
MaxRuns == 2

(***************************************************************************)
(* The corpora of the model: store contents as the ingestion pipeline      *)
(* writes them (key = key_prefix + "_" + section code, key_prefix =        *)
(* publisher + "_" + document code).                                       *)
(***************************************************************************)
\* decimal digits of n < 100, as str(n)
Digits(n) ==
    IF n < 10 THEN <<DigitChars[n + 1]>>
    ELSE <<DigitChars[(n \div 10) + 1], DigitChars[(n % 10) + 1]>>

Code1991 == <<"E","N","_","1","9","9","1","-","1">>

Code1990 == <<"E","N","_","1","9","9","0">>

Prefix1991 == <<"B","S","_">> \o Code1991

Prefix1990 == <<"B","S","_">> \o Code1990

\* the key of the section with section code `code` of the document `prefix`
Key(prefix, code) == prefix \o <<"_">> \o code

\* the numbered sections of EN 1991-1
Sec(n) == Key(Prefix1991, Digits(n))

SecA == Key(Prefix1991, <<"4",".","1">>)

SecB == Key(Prefix1991, <<"4",".","2">>)

ObjT == Key(Prefix1991, <<"T","1">>)

Sec1990 == Key(Prefix1990, <<"1">>)

\* raw reference strings as the reference extraction stores them
RefToC == Sec(5) \o <<"(","1",")">>

RefExternal == <<"E","N","_","1","9","9","2","-","1","-","1","_","6",".","1">>

RefIso == <<"I","S","O","_","8","9","3","0">>

\* the document code of the external reference
CodeExternal == <<"E","N","_","1","9","9","2","-","1","-","1">>

\* a text: its length in characters and the words that occur in it, each
\* with its number of occurrences
Text(len, words) == [len |-> len, words |-> words]

\* a section record of store.sections
Section(code, title, page, content, prefix) ==
    [section_code |-> code, title |-> title, page |-> page,
     content |-> content, doc_key_prefix |-> prefix]

\* an insertion-ordered dict: its keys in order and its values
Dict(keys, val) == [keys |-> keys, val |-> val]

NoDict == Dict(<<>>, <<>>)

Has(d, k) == k \in DOMAIN d.val

\* d[k] = v on an insertion-ordered dict
DictPut(d, k, v) ==
    Dict(IF Has(d, k) THEN d.keys ELSE Append(d.keys, k), Put(d.val, k, v))

RECURSIVE DictUpdate(_, _)
\* d.update(e)
DictUpdate(d, e) ==
    IF e.keys = <<>> THEN d
    ELSE DictUpdate(DictPut(d, Head(e.keys), e.val[Head(e.keys)]),
                    Dict(Tail(e.keys), e.val))

\* del d[k] for every key k in gone
DictRemove(d, gone) ==
    Dict(SelectSeq(d.keys, LAMBDA k : k \notin gone),
         [k \in (DOMAIN d.val) \ gone |-> d.val[k]])

Doc1991 == [id |-> "en1991", code |-> Code1991, key_prefix |-> Prefix1991]

Doc1990 == [id |-> "en1990", code |-> Code1990, key_prefix |-> Prefix1990]

\* the wide corpus: one document of n numbered sections without references
WideStore(n) ==
    [documents  |-> <<Doc1991>>,
     sections   |->
        Dict([i \in 1..n |-> Sec(i)],
             [k \in {Sec(i) : i \in 1..n} |->
                LET i == CHOOSE j \in 1..n : Sec(j) = k
                IN  Section(Digits(i), IF i = 1 THEN {"wind"} ELSE {}, i,
                            Text(IF i = 2 THEN 0 ELSE 600,
                                 IF i <= 2 THEN ("wind" :> 1) ELSE <<>>),
                            Prefix1991)]),
     objects    |-> NoDict,
     references |-> EmptyDict,
     precedence |-> NoDict,
     kv_store   |-> <<>>]

\* the linked corpus: sections that refer to each other (4.1 and 4.2 in a
\* cycle, a chain 4.2 -> 5 -> 6 -> 7 longer than the depth cap) and to a
\* document that is not loaded; every loaded document has a
\* precedence rule
LinkedSections(docs) ==
    LET own == <<SecA, SecB, Sec(5), Sec(6), Sec(7)>>
        codes == (SecA :> <<"4",".","1">>) @@ (SecB :> <<"4",".","2">>)
                 @@ (Sec(5) :> <<"5">>) @@ (Sec(6) :> <<"6">>) @@ (Sec(7) :> <<"7">>)
        base == Dict(own,
                  [k \in Range(own) |->
                     Section(codes[k], IF k = SecA THEN {"wind"} ELSE {},
                             Len(codes[k]),
                             Text(IF k = SecB THEN 0 ELSE 600,
                                  IF k \in {SecA, Sec(5)}
                                  THEN ("wind" :> 2) @@ ("load" :> 1) ELSE <<>>),
                             Prefix1991)])
    IN  IF \E i \in Indices(docs) : docs[i] = Doc1990
        THEN DictPut(base, Sec1990,
                     Section(<<"1">>, {}, 1, Text(600, "basis" :> 1), Prefix1990))
        ELSE base

LinkedStore(docs) ==
    [documents  |-> docs,
     sections   |-> LinkedSections(docs),
     objects    |-> Dict(<<ObjT>>,
                         ObjT :> [code |-> <<"T","1">>, title |-> {"load"},
                                  description |-> Text(40, "load" :> 1),
                                  page |-> 3, doc_id |-> "en1991"]),
     references |-> (SecA :> <<SecB, RefExternal>>) @@
                    (SecB :> <<SecA, RefToC>>) @@
                    (Sec(5) :> <<Sec(6), ObjT>>) @@
                    (Sec(6) :> <<Sec(7), RefIso>>) @@
                    (Sec(7) :> <<>>),
     precedence |->
        LET rule == [supersedes |-> <<"ENV_1991">>, superseded_by |-> <<>>,
                     note |-> "national annex"]
            own  == Dict(<<Key(Prefix1991, <<"N","A">>)>>,
                         Key(Prefix1991, <<"N","A">>) :> rule)
        IN  IF \E i \in Indices(docs) : docs[i] = Doc1990
            THEN DictPut(own, Key(Prefix1990, <<"N","A">>),
                         [rule EXCEPT !.supersedes = <<"ENV_1990">>])
            ELSE own,
     kv_store   |-> <<[key |-> "qk", value |-> <<"wind", "pressure">>]>>]

(***************************************************************************)
(* Requests.  A query text is the sequence of its words; a message is      *)
(* {role, content, references}.                                            *)
(***************************************************************************)
\* words of fewer than three letters (not matched by \b[a-zA-Z]{3,}\b)
ShortWords == {"hi", "is", "of"}

\* the stop words of _extract_keywords
KeywordStopWords ==
    {"what", "where", "when", "which", "that", "this", "with", "from", "have",
     "does", "should", "would", "could", "the", "for", "are", "how"}

QueryWind == <<"what", "is", "the", "wind", "load">>

Message(role, content) == [role |-> role, content |-> content, references |-> <<>>]

\* a greeting, as the only message of its conversation
RequestHi == [query_text |-> <<"hi">>, messages |-> <<Message("user", <<"hi">>)>>]

\* a technical question, as the only message of its conversation
RequestWind == [query_text |-> QueryWind,
                messages |-> <<Message("user", QueryWind)>>]

\* the same question at the end of a conversation longer than the window
RequestWindLong ==
    [query_text |-> QueryWind,
     messages |-> [i \in 1..(CONVERSATION_CONTEXT_LIMIT + 1) |->
                      IF i % 2 = 1 THEN Message("user", QueryWind)
                      ELSE Message("assistant", <<"see", "section">>)]]

(***************************************************************************)
(* QueryEngine._classify_conversation_intent                               *)
(***************************************************************************)
\* an LLM completion: raised (the provider call failed) or a text
Raised == [ok |-> FALSE, text |-> <<>>]

Completion(text) == [ok |-> TRUE, text |-> text]

WordChat == <<"c","h","a","t">>

WordQuery == <<"q","u","e","r","y">>

\* what the provider may answer to the classification prompt
ClassifierAnswers ==
    { Raised, Completion(WordChat), Completion(WordQuery),
      Completion(<<"C","h","a","t">>), Completion(<<" ","c","h","a","t"," ">>),
      Completion(<<"Q","U","E","R","Y">>),
      Completion(<<"s","e","a","r","c","h">>), Completion(<<>>) }

\* line 449: recent = messages[-CONVERSATION_CONTEXT_LIMIT:]
Recent(messages) ==
    SubSeq(messages,
           IF Len(messages) > CONVERSATION_CONTEXT_LIMIT
           THEN Len(messages) - CONVERSATION_CONTEXT_LIMIT + 1 ELSE 1,
           Len(messages))

\* lines 494-505: the chat messages of _conversational_response, one for
\* every message, with a note on the references of an assistant message
ChatMessages(messages) ==
    [i \in Indices(messages) |->
       [role |-> messages[i].role, content |-> messages[i].content,
        noted |-> messages[i].references # <<>>
                  /\ messages[i].role = "assistant"]]

\* a classifier that defaults to chat
ClassifyIntentDefaultChat(answer) ==
    IF ~answer.ok THEN "chat"
    ELSE LET result == Lower(Strip(answer.text))
         IN  IF result = WordQuery THEN "query" ELSE "chat"

\* the try block: strip, lower, accept only query or chat, else query
ClassifyIntent(answer) ==
    IF ~answer.ok THEN "query"
    ELSE LET result == Lower(Strip(answer.text))
         IN  IF result = WordChat THEN "chat"
             ELSE IF result = WordQuery THEN "query"
             ELSE "query"

(***************************************************************************)
(* QueryEngine._extract_keywords, _expand_keywords_with_kv and             *)
(* _keyword_search, on words instead of characters: a keyword occurs in a  *)
(* text when it is one of its words.                                       *)
(***************************************************************************)
\* the first n elements of a sequence
Take(seq, n) == SubSeq(seq, 1, IF n < Len(seq) THEN n ELSE Len(seq))

RECURSIVE Dedupe(_, _)
\* list(dict.fromkeys(seq)): duplicates dropped, first occurrences kept
Dedupe(seq, seen) ==
    IF seq = <<>> THEN <<>>
    ELSE IF Head(seq) \in seen THEN Dedupe(Tail(seq), seen)
    ELSE <<Head(seq)>> \o Dedupe(Tail(seq), seen \cup {Head(seq)})

\* a merge that puts the keyword hits first
MergeHitsKeywordsFirst(hit_ids, keyword_hits) ==
    Dedupe(keyword_hits \o hit_ids, {})

\* line 221: list(dict.fromkeys(hit_ids + keyword_hits))
MergeHits(hit_ids, keyword_hits) == Dedupe(hit_ids \o keyword_hits, {})

\* the regex and stop-word fallback of _extract_keywords
FallbackKeywords(query_text) ==
    Take(SelectSeq(query_text,
                   LAMBDA w : w \notin ShortWords /\ w \notin KeywordStopWords), 5)

\* what the provider may answer to the keyword prompt: a JSON list of
\* strings, JSON of another shape (bad), or nothing parseable (raised)
KeywordAnswers ==
    { [ok |-> TRUE, bad |-> FALSE, list |-> <<"wind">>],
      [ok |-> TRUE, bad |-> TRUE,  list |-> <<>>],
      [ok |-> FALSE, bad |-> FALSE, list |-> <<>>] }

\* JSON lists the prompt does not ask for: none, and six keywords
OffPromptKeywords ==
    { [ok |-> TRUE, bad |-> FALSE, list |-> <<>>],
      [ok |-> TRUE, bad |-> FALSE,
       list |-> <<"wind", "load", "snow", "roof", "wall", "beam">>] }

\* whether the keywords can be lowered: kw.lower() raises for a keyword
\* that is no string
KeywordsUsable(answer) == ~(answer.ok /\ answer.bad)

ExtractKeywords(query_text, answer) ==
    IF answer.ok THEN answer.list ELSE FallbackKeywords(query_text)

ExpandKeywordsWithKv(keywords, kv_store) ==
    LET \* the contribution of one kv_store entry to the expansion of kw
        ExpandOne(kw, entry) ==
            IF kw = entry.key
            THEN Take(SelectSeq(entry.value, LAMBDA w : w \notin ShortWords), 3)
            ELSE IF \E i \in Indices(entry.value) : entry.value[i] = kw
            THEN <<entry.key>>
            ELSE <<>>
    IN  Dedupe(keywords \o
               Concat([i \in Indices(keywords) |->
                         Concat([j \in Indices(kv_store) |->
                                   ExpandOne(keywords[i], kv_store[j])])]),
               {})

\* the number of occurrences of a word in a text
Count(text, w) == IF w \in DOMAIN text.words THEN text.words[w] ELSE 0

RECURSIVE SumSeq(_)
SumSeq(ns) == IF ns = <<>> THEN 0 ELSE Head(ns) + SumSeq(Tail(ns))

\* the score of a section for the keywords
SectionScore(sec, keywords) ==
    SumSeq([i \in Indices(keywords) |->
              Count(sec.content, keywords[i])
              + (IF keywords[i] \in sec.title THEN TITLE_WEIGHT ELSE 0)])

\* the score of an object for the keywords (its code is not a text of the
\* model: no keyword of the model occurs in a code)
ObjectScore(obj, keywords) ==
    SumSeq([i \in Indices(keywords) |->
              Count(obj.description, keywords[i])
              + (IF keywords[i] \in obj.title THEN TITLE_WEIGHT ELSE 0)])

\* a search that returns its matches in the order of the store
Unsorted(matches) == matches

\* matches.sort(key=lambda x: -x[1]): a stable sort by descending score
RECURSIVE SortByScore(_)
SortByScore(matches) ==
    IF matches = <<>> THEN <<>>
    ELSE LET best == Max({matches[i][2] : i \in Indices(matches)})
             at   == Min({i \in Indices(matches) : matches[i][2] = best})
         IN  <<matches[at]>> \o
             SortByScore(SubSeq(matches, 1, at - 1)
                         \o SubSeq(matches, at + 1, Len(matches)))

KeywordSearch(keywords, sections, objects) ==
    LET sec_scores == [i \in Indices(sections.keys) |->
                         <<sections.keys[i],
                           SectionScore(sections.val[sections.keys[i]], keywords)>>]
        obj_scores == [i \in Indices(objects.keys) |->
                         <<objects.keys[i],
                           ObjectScore(objects.val[objects.keys[i]], keywords)>>]
        matches    == SelectSeq(sec_scores \o obj_scores, LAMBDA m : m[2] > 0)
        sorted     == Take(SortByScore(matches), KEYWORD_HIT_LIMIT)
    IN  [i \in Indices(sorted) |-> sorted[i][1]]

(***************************************************************************)
(* The candidate records query() builds from the store.                    *)
(***************************************************************************)
\* the record built for an object that stands in for a section
ObjectAsSection(obj) ==
    [section_code |-> obj.code, title |-> obj.title,
     content |-> obj.description, page |-> obj.page]

RECURSIVE MaterialiseAll(_, _, _)
\* a loop that keeps the ids found nowhere, as empty sections
MaterialiseAll(ids, sections, objects) ==
    IF ids = <<>> THEN NoDict
    ELSE LET sid  == Head(ids)
             rest == MaterialiseAll(Tail(ids), sections, objects)
             one  == IF Has(sections, sid) THEN sections.val[sid]
                     ELSE IF Has(objects, sid)
                     THEN ObjectAsSection(objects.val[sid])
                     ELSE Section(<<>>, {}, 0, Text(0, <<>>), <<>>)
         IN  DictUpdate(Dict(<<sid>>, sid :> one), rest)

RECURSIVE Materialise(_, _, _)
\* the loop "for sid in ids": sections first, objects as the fallback, ids
\* found in neither are left out
Materialise(ids, sections, objects) ==
    IF ids = <<>> THEN NoDict
    ELSE LET sid  == Head(ids)
             rest == Materialise(Tail(ids), sections, objects)
             one  == IF Has(sections, sid) THEN Dict(<<sid>>, sid :> sections.val[sid])
                     ELSE IF Has(objects, sid)
                     THEN Dict(<<sid>>, sid :> ObjectAsSection(objects.val[sid]))
                     ELSE NoDict
         IN  DictUpdate(one, rest)

(***************************************************************************)
(* PineconeSearch.search on a ranked index                                 *)
(***************************************************************************)
PineconeSearch(index, top_k) == Take(index, top_k)

(***************************************************************************)
(* QueryEngine._check_relevance and _check_relevance_batch                 *)
(***************************************************************************)
\* JSON null
Null == [len |-> -1, words |-> <<>>]

\* a key the model returns that is no key of the batch: the section code
\* in place of the full key
GhostKey == <<"4",".","2">>

\* the shapes of the provider's answer to the extraction prompt of a batch
RelevanceShapes == {"all", "none", "ghost", "raise"}

\* first replies that are no JSON, which generate_json_with_fallback asks
\* again from the fallback model: the second reply parses ("reparse", as
\* "all"), or is no JSON either ("unparsable")
ParseShapes == {"reparse", "unparsable"}

\* the provider calls generate_json_with_fallback makes for a batch
ExtractionCalls(shape) == IF shape \in ParseShapes THEN 2 ELSE 1

\* the parsed JSON object of an answer of the given shape, as its items in
\* order; the call raises for "raise" and "unparsable"
RelevanceAnswer(shape, batch) ==
    LET \* the extract the model returns for a candidate it finds relevant
        ExtractOf(sec) ==
            Text(IF sec.content.len < 80 THEN sec.content.len + 1 ELSE 80,
                 sec.content.words)
    IN  [ok    |-> shape \notin {"raise", "unparsable"},
         items |-> [i \in Indices(batch.keys) |->
                      <<batch.keys[i],
                        IF shape \in {"all", "reparse"}
                        THEN ExtractOf(batch.val[batch.keys[i]])
                        ELSE Null>>]
                   \o (IF shape = "ghost"
                       THEN <<<<GhostKey, Text(80, <<>>)>>>> ELSE <<>>)]

\* {k: v for k, v in result.items() if v is not None and v}
KeepRelevant(items) ==
    LET kept == SelectSeq(items, LAMBDA it : it[2] # Null /\ it[2].len > 0)
    IN  Dict([i \in Indices(kept) |-> kept[i][1]],
             [k \in {kept[i][1] : i \in Indices(kept)} |->
                kept[CHOOSE i \in Indices(kept) : kept[i][1] = k][2]])

\* an except branch that keeps the whole content
FallbackExtractsWhole(batch) ==
    Dict(batch.keys, [k \in DOMAIN batch.val |-> batch.val[k].content])

\* the except branch: every candidate of the batch with
\* sec.get("content", "")[:500]
FallbackExtracts(batch) ==
    Dict(batch.keys,
         [k \in DOMAIN batch.val |->
            LET content == batch.val[k].content
            IN  Text(IF content.len > FALLBACK_CONTENT_CHARS
                     THEN FALLBACK_CONTENT_CHARS ELSE content.len,
                     content.words)])

CheckRelevanceBatch(batch, answer) ==
    IF answer.ok THEN KeepRelevant(answer.items) ELSE FallbackExtracts(batch)

\* a split that forms full batches only
BatchCountFull(n) == n \div RELEVANCE_BATCH_SIZE

\* the number of batches of n candidates
BatchCount(n) == (n + RELEVANCE_BATCH_SIZE - 1) \div RELEVANCE_BATCH_SIZE

\* batches of RELEVANCE_BATCH_SIZE candidates in dict order
Batches(candidates) ==
    [b \in 1..BatchCount(Len(candidates.keys)) |->
        LET keys == SubSeq(candidates.keys,
                           (b - 1) * RELEVANCE_BATCH_SIZE + 1,
                           IF b * RELEVANCE_BATCH_SIZE < Len(candidates.keys)
                           THEN b * RELEVANCE_BATCH_SIZE
                           ELSE Len(candidates.keys))
        IN  Dict(keys, [k \in Range(keys) |-> candidates.val[k]])]

RECURSIVE MergeAll(_)
\* merged = {}; for r in results: merged.update(r)
MergeAll(results) ==
    IF results = <<>> THEN NoDict
    ELSE DictUpdate(Head(results), MergeAll(Tail(results)))

\* shapes[b] is the shape of the answer to batch b
CheckRelevance(candidates, shapes) ==
    LET batches == Batches(candidates)
    IN  MergeAll([b \in Indices(batches) |->
                    CheckRelevanceBatch(batches[b],
                                        RelevanceAnswer(shapes[b], batches[b]))])

(***************************************************************************)
(* Expansion (step 5) and reference following (steps 6-8) of query()       *)
(***************************************************************************)
\* the ids of vector_hits[-2:]
BottomTwo(vector_hits) ==
    SubSeq(vector_hits, IF Len(vector_hits) > 2 THEN Len(vector_hits) - 1 ELSE 1,
           Len(vector_hits))

\* the expansion loop without its round cap
ExpandCondUncapped(expansion_rounds, vector_hits, top_k, relevant_extracts) ==
    /\ ~(Len(vector_hits) < top_k)
    /\ \E i \in Indices(BottomTwo(vector_hits)) :
          Has(relevant_extracts, BottomTwo(vector_hits)[i])

\* the expansion loop without its full-window break
ExpandCondAnyWindow(expansion_rounds, vector_hits, top_k, relevant_extracts) ==
    /\ expansion_rounds < MAX_EXPANSION_ROUNDS
    /\ \E i \in Indices(BottomTwo(vector_hits)) :
          Has(relevant_extracts, BottomTwo(vector_hits)[i])

\* the loop condition and the two breaks at the head of the expansion loop
ExpandCond(expansion_rounds, vector_hits, top_k, relevant_extracts) ==
    /\ expansion_rounds < MAX_EXPANSION_ROUNDS
    /\ ~(Len(vector_hits) < top_k)
    /\ \E i \in Indices(BottomTwo(vector_hits)) :
          Has(relevant_extracts, BottomTwo(vector_hits)[i])

\* a hop loop that runs one hop longer
DepthLeftOneMore(depth) == depth <= MAX_REFERENCE_DEPTH + 1

\* whether another hop of the loop "for depth in range(1, MAX + 1)" starts
DepthLeft(depth) == depth <= MAX_REFERENCE_DEPTH

\* ref_ids of one hop: the references of the relevant extracts that are
\* not in all_followed
RefIds(relevant_extracts, references, all_followed) ==
    UNION { {r \in Range(Get(references, sid)) : r \notin all_followed} :
            sid \in DOMAIN relevant_extracts.val }

\* a hop that forgets what earlier hops visited
FollowedThisHop(all_followed, ref_candidates, ref_ids) ==
    IF ref_candidates.keys # <<>> THEN Range(ref_candidates.keys) ELSE ref_ids

\* lines 338-346: all_followed after a hop, by all_followed.update of the
\* candidates' keys, or of ref_ids when the hop has no candidate
Followed(all_followed, ref_candidates, ref_ids) ==
    all_followed \cup (IF ref_candidates.keys # <<>>
                       THEN Range(ref_candidates.keys) ELSE ref_ids)

\* the references of the relevant extracts that were never followed, in
\* the order of the final loop
Unfollowed(relevant_extracts, references, all_followed) ==
    Concat([i \in Indices(relevant_extracts.keys) |->
              SelectSeq(Get(references, relevant_extracts.keys[i]),
                        LAMBDA r : r \notin all_followed)])

(***************************************************************************)
(* Precedence (step 9), conflicts (step 10), synthesis (step 11)           *)
(***************************************************************************)
\* the keys of unique_precedence, in order; the prefix of a key is
\* self.store.sections.get(sid, {}).get("doc_key_prefix", "")
PrecedenceKeys(relevant_extracts, sections, precedence) ==
    Dedupe(Concat([i \in Indices(relevant_extracts.keys) |->
                     LET sid == relevant_extracts.keys[i]
                         prefix == IF Has(sections, sid)
                                   THEN sections.val[sid].doc_key_prefix
                                   ELSE <<>>
                     IN  SelectSeq(precedence.keys,
                                   LAMBDA pkey : StartsWith(pkey, prefix))]),
           {})

\* what the provider may answer to the conflict prompt
ConflictAnswers == {"none", "found", "raise"}

\* a detector whose except branch reports the failure as a conflict
CheckConflictsOrError(relevant_extracts, answer) ==
    IF answer = "none" THEN <<>>
    ELSE <<[sections |-> Take(relevant_extracts.keys, 2),
            description |-> "contradictory values"]>>

\* the parsed list; the except branch returns []
CheckConflicts(relevant_extracts, answer) ==
    IF answer = "found"
    THEN <<[sections |-> Take(relevant_extracts.keys, 2),
            description |-> "contradictory values"]>>
    ELSE <<>>

\* len("\n\n*[Answer truncated for length]*")
TRUNCATION_MARKER_CHARS == 33

\* len("Error synthesizing answer. Raw relevant sections:\n")
FALLBACK_PREFIX_CHARS == 50

\* what the provider may answer to the synthesis prompt: a text of some
\* length, or a failure
SynthesisAnswers == {[ok |-> TRUE, len |-> 900],
                     [ok |-> TRUE, len |-> ANSWER_CHAR_CAP + 1],
                     [ok |-> FALSE, len |-> 0]}

\* the answer as the model keeps it: where it comes from and its length
Answer(kind, len) == [kind |-> kind, len |-> len]

\* a synthesizer whose except branch returns the empty string
SynthesizeAnswerOrNothing(relevant_extracts, answer) ==
    IF ~answer.ok THEN Answer("raw_extracts", 0)
    ELSE IF answer.len > ANSWER_CHAR_CAP
    THEN Answer("llm_truncated", ANSWER_CHAR_CAP + TRUNCATION_MARKER_CHARS)
    ELSE Answer("llm", answer.len)

SynthesizeAnswer(relevant_extracts, answer) ==
    IF ~answer.ok
    THEN Answer("raw_extracts",
                FALLBACK_PREFIX_CHARS +
                SumSeq([i \in Indices(relevant_extracts.keys) |->
                          relevant_extracts.val[relevant_extracts.keys[i]].len]))
    ELSE IF answer.len > ANSWER_CHAR_CAP
    THEN Answer("llm_truncated", ANSWER_CHAR_CAP + TRUNCATION_MARKER_CHARS)
    ELSE Answer("llm", answer.len)

\* the query words found in the extract, at most four
HighlightTerms(query_text, extract) ==
    LET stop_words == KeywordStopWords \cup {"and", "about", "can", "you",
                                             "tell", "find", "show", "give"}
    IN  Take(Dedupe(SelectSeq(query_text,
                              LAMBDA w : /\ w \notin ShortWords
                                         /\ w \notin stop_words
                                         /\ w \in DOMAIN extract.words), {}), 4)

\* one entry of the references list of the response
Reference(sid, extract, query_text, st) ==
    LET is_sec == Has(st.sections, sid)
        is_obj == Has(st.objects, sid)
        sec    == st.sections.val[sid]
        obj    == st.objects.val[sid]
        \* the key_prefix of the document with the given id, "" when absent
        DocPrefix(documents, doc_id) ==
            LET hits == {i \in Indices(documents) : documents[i].id = doc_id}
            IN  IF hits = {} THEN <<>> ELSE documents[Min(hits)].key_prefix
    IN  [id           |-> sid,
         section_code |-> IF is_sec /\ sec.section_code # <<>> THEN sec.section_code
                          ELSE IF is_obj THEN obj.code ELSE sid,
         title        |-> IF is_sec /\ sec.title # {} THEN sec.title
                          ELSE IF is_obj THEN obj.title ELSE {},
         page         |-> IF is_sec /\ sec.page # 0 THEN sec.page
                          ELSE IF is_obj THEN obj.page ELSE 0,
         extract      |-> extract,
         doc_id       |-> IF is_sec /\ sec.doc_key_prefix # <<>> THEN sec.doc_key_prefix
                          ELSE IF is_obj THEN DocPrefix(st.documents, obj.doc_id)
                          ELSE <<>>,
         highlightText |-> HighlightTerms(query_text, extract)]

References(relevant_extracts, query_text, st) ==
    [i \in Indices(relevant_extracts.keys) |->
        Reference(relevant_extracts.keys[i],
                  relevant_extracts.val[relevant_extracts.keys[i]], query_text, st)]

(***************************************************************************)
(* QueryEngine._collect_missing_docs: sorted(missing)                      *)
(***************************************************************************)
\* the rank of a character of the model's strings in code point order
Ord(c) ==
    LET CharOrder == <<" ", "(", ")", "+", "-", ".", "/">> \o DigitChars
                     \o <<":">> \o UpperChars \o <<"_">> \o LowerChars
    IN  CHOOSE i \in DOMAIN CharOrder : CharOrder[i] = c

\* a < b for Python strings
StrLess(a, b) ==
    LET n    == IF Len(a) < Len(b) THEN Len(a) ELSE Len(b)
        diff == {i \in 1..n : a[i] # b[i]}
    IN  IF diff = {} THEN Len(a) < Len(b)
        ELSE Ord(a[Min(diff)]) < Ord(b[Min(diff)])

RECURSIVE Sorted(_)
\* sorted(S) for a set of strings
Sorted(S) ==
    IF S = {} THEN <<>>
    ELSE LET least == CHOOSE x \in S : \A y \in S \ {x} : StrLess(x, y)
         IN  <<least>> \o Sorted(S \ {least})

\* idx, d2p: the cached index; st: the live store
Resolve(idx, d2p, st, ref_key) ==
    ResolveRef(idx, d2p,
               [i \in Indices(st.documents) |-> st.documents[i].key_prefix],
               st.sections.keys, ref_key)

CollectMissingDocs(idx, d2p, st, ref_keys) ==
    Sorted({MissingDocCode(r) :
              r \in {q \in ref_keys : /\ Resolve(idx, d2p, st, q) = None
                                      /\ MissingDocCode(q) # None}})

(***************************************************************************)
(* GeminiService (gemini.py): the semaphore and the retries of a request   *)
(***************************************************************************)
MAX_RETRIES == 3

RETRY_BASE_DELAY == 12

MAX_CONCURRENT_LLM == 10

\* the requests of other callers (other queries, ingestion) that the model
\* lets begin
MaxOthers == 10

\* no request is in _request_with_retry: nobody holds self._sem.  One
\* request is followed through its attempts (phase, attempt, the statuses
\* it received, the delays it slept); of the others only the number that
\* hold a permit is kept.  free is the value of the semaphore.
NoRequests ==
    [holders |-> 0, begun |-> 0, phase |-> "idle", attempt |-> 0,
     statuses |-> <<>>, waits |-> <<>>, free |-> MAX_CONCURRENT_LLM]

\* what the provider answers to a POST: a status, or (0) no response at all
Statuses == {200, 429, 500, 0}

\* a semaphore that never blocks
CanAcquireAlways(in_use) == TRUE

\* the permits of self._sem that are taken, for a semaphore of this value
Taken(value) == MAX_CONCURRENT_LLM - value

\* entering "async with self._sem": Semaphore.acquire
Acquire(value) == value - 1

\* an exit that keeps the permit
Keep(value) == value

\* leaving "async with self._sem", by return or by an exception:
\* Semaphore.release
Release(value) == value + 1

\* asyncio.Semaphore(MAX_CONCURRENT_LLM): a permit is free
CanAcquire(in_use) == in_use < MAX_CONCURRENT_LLM

\* a retry loop that sleeps and retries after every error status
ShouldRetryAnyError(status, attempt) ==
    status \notin {200, 0} /\ attempt < MAX_RETRIES

\* line 174: the attempt is followed by a sleep and another attempt
ShouldRetry(status, attempt) == status = 429 /\ attempt < MAX_RETRIES

(***************************************************************************)
(* RateLimiter and validate_file_upload (security.py)                      *)
(***************************************************************************)
MAX_UPLOADS == 10

WINDOW_SECONDS == 3600

\* the clients that upload; a request without client address is "unknown"
Clients == {"10.0.0.7", "unknown"}

\* the uploads that the model lets pass, of all clients together
MaxPassed == 12

\* the instants, in seconds of time.time(), at which uploads arrive: an
\* instant, the last second of the window that starts there and the first
\* second after it
UploadInstants == <<0, 3599, 3600>>

\* what a client uploads: a PDF that passes every validation, or a file
\* without name, over the size limit, without the PDF magic bytes or with
\* the pattern of the malware scan
Files == {"ok", "no_name", "too_big", "not_pdf", "malware"}

\* rate_limiter as constructed (self.uploads = {}), nothing sent yet: the
\* timestamps it holds for each client, time.time(), and as history the
\* timestamps of all uploads that passed and the status of the last answer
NoUploads ==
    [uploads |-> [c \in Clients |-> <<>>], clock |-> 0,
     passed |-> [c \in Clients |-> <<>>], status |-> 0]

\* the clean-up: the entries with now - ts < self.window_seconds
Kept(entries, t) == SelectSeq(entries, LAMBDA ts : t - ts < WINDOW_SECONDS)

\* a limiter that lets one upload more through
RateLimitedOver(current_count) == current_count > MAX_UPLOADS

\* if current_count >= self.max_uploads: raise RateLimitExceeded
RateLimited(current_count) == current_count >= MAX_UPLOADS

(***************************************************************************)
(* State.                                                                  *)
(***************************************************************************)
VARIABLES
    store,                \* DataStore: documents, sections, objects, ...
    pinecone,             \* the vector index: section ids, best first
    ref_index,            \* QueryEngine._ref_index (none until first use)
    doc_code_to_prefix,   \* QueryEngine._doc_code_to_prefix
    hash_seed,            \* the hash seed of the process
    now,                  \* time.time(), in milliseconds
    llm,                  \* the provider: free, or a deterministic mock
    request,              \* the arguments of query(): query_text, messages
    pc,                   \* where query() stands
    rq,                   \* the local variables of query()
    result,               \* what query() returned
    calls,                \* how often each collaborator was called (history)
    heard,                \* the provider's last answer: the classifier's, or
                          \* Raised when a later completion failed (history)
    last_search,          \* the last vector search: top_k and hits (history)
    run,                  \* the number of the query on this engine instance
    prev_result,          \* what the previous query returned (history)
    resolved,             \* the results of the _resolve_ref calls (history)
    gemini,               \* GeminiService: its semaphore and one request
    limiter,              \* security.rate_limiter and the clock of uploads
    http,                 \* what the API endpoint answered to the client
    ingest                \* where the background task process_pdf stands

vars == <<store, pinecone, ref_index, doc_code_to_prefix, hash_seed, now, llm,
          request, pc, rq, result, calls, heard, last_search, run, prev_result,
          resolved, gemini, limiter, http, ingest>>

CallKinds == {"classify", "chat", "embed", "search", "keywords", "relevance",
              "hop", "conflicts", "synthesis"}

NoCalls == [k \in CallKinds |-> 0]

Called(c, kind, n) == [c EXCEPT ![kind] = @ + n]

\* query() has not returned
NoResult == [pending |-> TRUE]

\* query() raised: the API layer answers HTTP 500
RaisedResult == [raised |-> TRUE]

NoReply == [ok |-> FALSE, text |-> <<"-">>]

NoSearch == [top_k |-> 0, hits |-> <<>>]

\* the local variables of query() as it starts
NewFrame(t) ==
    [intent |-> "", top_k |-> 0, vector_hits |-> <<>>, keywords |-> <<>>,
     keywords_ok |-> TRUE, keyword_hits |-> <<>>,
     recent |-> <<>>, chat_messages |-> <<>>,
     candidates |-> NoDict, relevant_extracts |-> NoDict,
     expansion_rounds |-> 0, depth |-> 0,
     all_followed |-> {}, all_unresolved_refs |-> {}, materialised |-> {},
     collected |-> {},
     unfollowed |-> <<>>, missing_docs |-> <<>>, unique_precedence |-> <<>>,
     conflicts |-> <<>>, steps_log |-> <<>>, timings |-> <<>>,
     shapes |-> <<>>, batches |-> <<>>, extraction_calls |-> <<>>,
     pipeline_start |-> t, t0 |-> t]

\* the time that may pass while a stage runs
Elapsed == 0..(MaxClock - now)

\* timings[name] = _ms_since(t0), and t0 = time.time() of the next stage
Timed(frame, name, t) ==
    [frame EXCEPT !.timings = Put(@, name, t - frame.t0), !.t0 = t]

\* the provider's answers: any of `all`, or the mock's one answer
Answers(kind, all) == IF llm.det THEN {llm[kind]} ELSE all

\* the mocks of the model (deterministic providers)
Mocks ==
    [det : {TRUE},
     classify  : {Completion(WordQuery), Completion(WordChat)},
     chat      : {TRUE},
     embed     : {TRUE},
     keywords  : {[ok |-> TRUE, bad |-> FALSE, list |-> <<"wind">>]},
     relevance : {"all"},
     conflicts : {"found"},
     synthesis : {[ok |-> TRUE, len |-> 900]},
     off_prompt : {[keywords |-> {}, shapes |-> {}]}]

FreeProvider ==
    [det |-> FALSE, classify |-> Raised, chat |-> TRUE, embed |-> TRUE,
     keywords |-> [ok |-> FALSE, bad |-> FALSE, list |-> <<>>],
     relevance |-> "none", conflicts |-> "none",
     synthesis |-> [ok |-> FALSE, len |-> 0],
     off_prompt |-> [keywords |-> {}, shapes |-> {}]]

\* a provider that may also answer off the prompt: no keyword or more than
\* five, and replies to the extraction prompt that are no JSON
LooseProvider ==
    [FreeProvider EXCEPT
       !.off_prompt = [keywords |-> OffPromptKeywords, shapes |-> ParseShapes]]

\* a store and the vector index over it
World(st, index) == [store |-> st, pinecone |-> index]

\* the wide corpus with all of its n sections indexed
WideWorld(n) == World(WideStore(n), [i \in 1..n |-> Sec(i)])

\* a process: its store and vector index, the request it serves and its
\* hash seed
Scenario(world, req, seed) == [world |-> world, request |-> req, seed |-> seed]

\* wide corpora: empty, emptied under an index that still lists two
\* sections, smaller than the first window, exactly one and two windows,
\* and the largest index.  No set of strings is iterated over them.
WideScenarios ==
    { Scenario(WideWorld(0), RequestWind, 0),
      Scenario(World(WideStore(0), <<Sec(1), Sec(2)>>), RequestWind, 0),
      Scenario(WideWorld(3), RequestHi, 0),
      Scenario(WideWorld(INITIAL_TOP_K), RequestWind, 0),
      Scenario(WideWorld(INITIAL_TOP_K + TOP_K_STEP), RequestWind, 0),
      Scenario(WideWorld(MaxIndex), RequestWindLong, 0) }

\* linked corpora under every hash seed
LinkedScenarios ==
    { Scenario(world, RequestWind, seed) :
        world \in { World(LinkedStore(<<Doc1991>>), <<SecA>>),
                    World(LinkedStore(<<Doc1990, Doc1991>>), <<Sec(5), SecA>>) },
        seed \in 0..MaxSeed }

(***************************************************************************)
(* QueryEngine.query, one action per stage.  A provider call and the       *)
(* handling of its answer are one step.                                    *)
(***************************************************************************)
\* len() of the fixed reply of _conversational_response's except branch
APOLOGY_CHARS == 74

\* len() of the fixed answer of the no-results return
NO_RESULTS_CHARS == 124

\* steps_log.append(entry)
Log(frame, entry) == [frame EXCEPT !.steps_log = Append(@, entry)]

\* a set whose iteration order changes from one request to the next
SetOrderPerRun(S, seed) == Rotate(SetToSeq(S), seed + run)

\* for x in S, S a Python set of strings
SetOrder(S, seed) == Rotate(SetToSeq(S), seed)

\* _build_ref_index on the store as it is when _resolve_ref is first called
BuildRefIndex(st, seed) ==
    [idx |-> IndexKeys(EmptyDict, st.sections.keys \o st.objects.keys),
     d2p |-> DocCodeToPrefix(<<>>, st.documents, seed)]

\* a resolver that builds the index on every call
EnsureIndexAnew == BuildRefIndex(store, hash_seed)

\* if self._ref_index is None: self._build_ref_index()
EnsureIndex ==
    IF ref_index.built
    THEN [idx |-> ref_index.idx, d2p |-> doc_code_to_prefix]
    ELSE BuildRefIndex(store, hash_seed)

\* a pipeline that searches whatever the intent
AfterIntentSearch(intent) == "embed"

\* a pipeline that goes from the classification to the keywords
AfterIntentKeywords(intent) == IF intent = "chat" THEN "chat" ELSE "keywords"

\* line 178: the chat branch, or on to the search
AfterIntent(intent) == IF intent = "chat" THEN "chat" ELSE "embed"

\* lines 171-178: classify the conversation
Classify ==
    /\ pc = "start"
    /\ \E answer \in Answers("classify", ClassifierAnswers), dt \in Elapsed :
         LET intent == ClassifyIntent(answer)
         IN  /\ now' = now + dt
             /\ heard' = answer
             /\ rq' = Log(Timed([rq EXCEPT !.intent = intent,
                                           !.recent = Recent(request.messages)],
                                "1_intent", now + dt),
                          [step |-> "intent", result |-> intent])
             /\ pc' = AfterIntent(intent)
    /\ calls' = Called(calls, "classify", 1)
    /\ UNCHANGED <<ingest, gemini, limiter, http,
                   store, pinecone, ref_index, doc_code_to_prefix, hash_seed,
                   llm, request, result, last_search, run, prev_result, resolved>>

\* lines 178-190: the conversational reply, which ends the request
ChatResponse ==
    /\ pc = "chat"
    /\ \E ok \in Answers("chat", BOOLEAN), dt \in Elapsed :
         LET t       == now + dt
             timings == Put(Put(rq.timings, "chat_response", t - rq.t0),
                            "total", t - rq.pipeline_start)
         IN  /\ now' = t
             /\ rq' = [rq EXCEPT !.timings = timings,
                                  !.chat_messages = ChatMessages(request.messages)]
             /\ result' = [answer |-> IF ok THEN Answer("chat", 40)
                                      ELSE Answer("apology", APOLOGY_CHARS),
                           references |-> <<>>,
                           steps |-> rq.steps_log,
                           timings |-> timings,
                           missing_documents |-> <<>>]
    /\ pc' = "done"
    /\ heard' = NoReply
    /\ calls' = Called(calls, "chat", 1)
    /\ UNCHANGED <<ingest, gemini, limiter, http,
                   store, pinecone, ref_index, doc_code_to_prefix, hash_seed,
                   llm, request, last_search, run, prev_result, resolved>>

\* lines 193-195: embed the query; a provider error leaves query()
Embed ==
    /\ pc = "embed"
    /\ \E ok \in Answers("embed", BOOLEAN), dt \in Elapsed :
         /\ now' = now + dt
         /\ IF ok
            THEN /\ rq' = Timed(rq, "2a_embed", now + dt)
                 /\ pc' = "search"
                 /\ result' = result
            ELSE /\ rq' = rq
                 /\ pc' = "failed"
                 /\ result' = RaisedResult
    /\ heard' = NoReply
    /\ calls' = Called(calls, "embed", 1)
    /\ UNCHANGED <<ingest, gemini, limiter, http,
                   store, pinecone, ref_index, doc_code_to_prefix, hash_seed,
                   llm, request, last_search, run, prev_result, resolved>>

\* lines 197-203: the first vector search
VectorSearch ==
    /\ pc = "search"
    /\ \E dt \in Elapsed :
         LET hits == PineconeSearch(pinecone, INITIAL_TOP_K)
         IN  /\ now' = now + dt
             /\ rq' = Log(Timed([rq EXCEPT !.top_k = INITIAL_TOP_K,
                                           !.vector_hits = hits],
                                "2b_pinecone", now + dt),
                          [step |-> "vector_search", hits |-> Len(hits),
                           top_ids |-> Take(hits, 5)])
             /\ last_search' = [top_k |-> INITIAL_TOP_K, hits |-> hits]
    /\ pc' = "keywords"
    /\ calls' = Called(calls, "search", 1)
    /\ UNCHANGED <<ingest, gemini, limiter, http,
                   store, pinecone, ref_index, doc_code_to_prefix, hash_seed,
                   llm, request, result, heard, run, prev_result, resolved>>

\* lines 207-209: the keywords the provider extracts (or the fallback)
AskKeywords ==
    /\ pc = "keywords"
    /\ \E answer \in Answers("keywords",
                             KeywordAnswers \cup llm.off_prompt.keywords),
          dt \in Elapsed :
         /\ now' = now + dt
         /\ rq' = Timed([rq EXCEPT
                           !.keywords = ExtractKeywords(request.query_text, answer),
                           !.keywords_ok = KeywordsUsable(answer)],
                        "3a_keywords_llm", now + dt)
         /\ heard' = IF answer.ok THEN NoReply ELSE Raised
    /\ pc' = "gather"
    /\ calls' = Called(calls, "keywords", 1)
    /\ UNCHANGED <<ingest, gemini, limiter, http,
                   store, pinecone, ref_index, doc_code_to_prefix, hash_seed,
                   llm, request, result, last_search, run, prev_result,
                   resolved>>

\* lines 211-243: keyword expansion and search, the merge, the candidates,
\* and the return when there are none.  A keyword that is no string makes
\* kw.lower() raise.
Gather ==
    /\ pc = "gather"
    /\ IF ~rq.keywords_ok
       THEN /\ pc' = "failed"
            /\ result' = RaisedResult
            /\ UNCHANGED <<rq, now>>
       ELSE \E dt \in Elapsed :
              LET expanded     == ExpandKeywordsWithKv(rq.keywords, store.kv_store)
                  keyword_hits == KeywordSearch(expanded, store.sections,
                                                store.objects)
                  ids          == MergeHits(rq.vector_hits, keyword_hits)
                  candidates   == Materialise(ids, store.sections, store.objects)
                  frame        == Log(Timed([rq EXCEPT !.keyword_hits = keyword_hits],
                                            "3b_keyword_search", now + dt),
                                      [step |-> "keyword_search",
                                       keywords |-> rq.keywords,
                                       expanded |-> expanded,
                                       keyword_hits |-> Len(keyword_hits)])
              IN  /\ now' = now + dt
                  /\ IF candidates.keys = <<>>
                     THEN /\ rq' = frame
                          /\ pc' = "done"
                          /\ result' = [answer |-> Answer("no_results",
                                                          NO_RESULTS_CHARS),
                                        references |-> <<>>,
                                        steps |-> frame.steps_log]
                     ELSE /\ rq' = [frame EXCEPT
                                      !.candidates = candidates,
                                      !.materialised = Range(candidates.keys)]
                          /\ pc' = "relevance"
                          /\ result' = result
    /\ UNCHANGED <<ingest, gemini, limiter, http,
                   store, pinecone, ref_index, doc_code_to_prefix, hash_seed,
                   llm, request, calls, heard, last_search, run, prev_result,
                   resolved>>

\* the answer shape of every batch of a _check_relevance call: the same
\* for all, or ("mixed") a failure for the odd batches only
Shapes(candidates, shape) ==
    [b \in 1..BatchCount(Len(candidates.keys)) |->
        IF shape # "mixed" THEN shape
        ELSE IF b % 2 = 1 THEN "raise" ELSE "all"]

\* Raised when the call of one of the batches failed
BatchesHeard(shapes) ==
    IF \E b \in DOMAIN shapes : shapes[b] \in {"raise", "unparsable"}
    THEN Raised ELSE NoReply

\* lines 246-256: the first relevance check
RelevanceCheck ==
    /\ pc = "relevance"
    /\ \E shape \in Answers("relevance", RelevanceShapes \cup {"mixed"}
                                         \cup llm.off_prompt.shapes),
          dt \in Elapsed :
         LET shapes   == Shapes(rq.candidates, shape)
             relevant == CheckRelevance(rq.candidates, shapes)
         IN  /\ now' = now + dt
             /\ heard' = BatchesHeard(shapes)
             /\ rq' = Log(Timed([rq EXCEPT !.relevant_extracts = relevant,
                                           !.expansion_rounds = 0,
                                           !.shapes = shapes,
                                           !.batches =
                                             [b \in DOMAIN shapes |->
                                                Batches(rq.candidates)[b].keys],
                                           !.extraction_calls =
                                             [b \in DOMAIN shapes |->
                                                ExtractionCalls(shapes[b])]],
                                "4_relevance", now + dt),
                          [step |-> "relevance_check",
                           candidates |-> Len(rq.candidates.keys),
                           relevant |-> Len(relevant.keys)])
    /\ pc' = "expand"
    /\ calls' = Called(calls, "relevance", 1)
    /\ UNCHANGED <<ingest, gemini, limiter, http,
                   store, pinecone, ref_index, doc_code_to_prefix, hash_seed,
                   llm, request, result, last_search, run, prev_result,
                   resolved>>

\* lines 299-305: the expansion loop is left and reference following begins
StartRefs(frame, t) ==
    [Timed(frame, "5_expansion", t) EXCEPT
       !.all_followed = DOMAIN frame.relevant_extracts.val,
       !.all_unresolved_refs = {},
       !.depth = 1]

\* lines 257-297: one round of the expansion loop; the round ends the loop
\* when the wider search brings no new candidate
ExpandRound ==
    /\ pc = "expand"
    /\ ExpandCond(rq.expansion_rounds, rq.vector_hits, rq.top_k,
                  rq.relevant_extracts)
    /\ \E shape \in Answers("relevance", RelevanceShapes), dt \in Elapsed :
         LET rounds           == rq.expansion_rounds + 1
             top_k            == rq.top_k + TOP_K_STEP
             extra_hits       == PineconeSearch(pinecone, top_k)
             new_ids          == SelectSeq(extra_hits,
                                           LAMBDA h : ~Has(rq.candidates, h))
             extra_candidates == Materialise(new_ids, store.sections,
                                             store.objects)
             extra_relevant   == CheckRelevance(extra_candidates,
                                                Shapes(extra_candidates, shape))
             searched         == [rq EXCEPT !.expansion_rounds = rounds,
                                            !.top_k = top_k]
         IN  /\ now' = now + dt
             /\ heard' = BatchesHeard(Shapes(extra_candidates, shape))
             /\ last_search' = [top_k |-> top_k, hits |-> extra_hits]
             /\ IF extra_candidates.keys = <<>>
                THEN /\ rq' = StartRefs(searched, now + dt)
                     /\ pc' = "refs"
                     /\ calls' = Called(calls, "search", 1)
                ELSE /\ rq' = Log([searched EXCEPT
                                     !.relevant_extracts =
                                         DictUpdate(@, extra_relevant),
                                     !.candidates =
                                         DictUpdate(@, extra_candidates),
                                     !.materialised =
                                         @ \cup Range(extra_candidates.keys),
                                     !.vector_hits = extra_hits],
                                  [step |-> <<"expansion_round", rounds>>,
                                   top_k |-> top_k,
                                   extra_checked |-> Len(extra_candidates.keys),
                                   extra_relevant |-> Len(extra_relevant.keys)])
                     /\ pc' = "expand"
                     /\ calls' = Called(Called(calls, "search", 1),
                                        "relevance", 1)
    /\ UNCHANGED <<ingest, gemini, limiter, http,
                   store, pinecone, ref_index, doc_code_to_prefix, hash_seed,
                   llm, request, result, run, prev_result, resolved>>

\* lines 257-262: the loop condition fails or one of the two breaks is taken
ExpandStop ==
    /\ pc = "expand"
    /\ ~ExpandCond(rq.expansion_rounds, rq.vector_hits, rq.top_k,
                   rq.relevant_extracts)
    /\ \E dt \in Elapsed :
         /\ now' = now + dt
         /\ rq' = StartRefs(rq, now + dt)
    /\ pc' = "refs"
    /\ UNCHANGED <<ingest, gemini, limiter, http,
                   store, pinecone, ref_index, doc_code_to_prefix, hash_seed,
                   llm, request, result, calls, heard, last_search, run,
                   prev_result, resolved>>

\* lines 307-346: one hop of reference following
FollowHop ==
    /\ pc = "refs"
    /\ DepthLeft(rq.depth)
    /\ RefIds(rq.relevant_extracts, store.references, rq.all_followed) # {}
    /\ \E shape \in Answers("relevance", RelevanceShapes), dt \in Elapsed :
         LET ref_ids        == RefIds(rq.relevant_extracts, store.references,
                                      rq.all_followed)
             order          == SetOrder(ref_ids, hash_seed)
             index          == EnsureIndex
             unresolved     == {r \in ref_ids :
                                  Resolve(index.idx, index.d2p, store, r) = None}
             resolved_keys  == SelectSeq(
                                 [i \in Indices(order) |->
                                    Resolve(index.idx, index.d2p, store, order[i])],
                                 LAMBDA k : k # None)
             ref_candidates == Materialise(resolved_keys,
                                           store.sections, store.objects)
             ref_relevant   == CheckRelevance(ref_candidates,
                                              Shapes(ref_candidates, shape))
             hopped         == [rq EXCEPT
                                  !.all_unresolved_refs = @ \cup unresolved,
                                  !.collected = @ \cup ref_ids,
                                  !.depth = @ + 1]
         IN  /\ now' = now + dt
             /\ heard' = BatchesHeard(Shapes(ref_candidates, shape))
             /\ ref_index' = [built |-> TRUE, idx |-> index.idx]
             /\ doc_code_to_prefix' = index.d2p
             /\ IF ref_candidates.keys # <<>>
                THEN /\ rq' = Log([hopped EXCEPT
                                     !.relevant_extracts =
                                         DictUpdate(@, ref_relevant),
                                     !.all_followed =
                                         Followed(@, ref_candidates, ref_ids),
                                     !.materialised =
                                         @ \cup Range(ref_candidates.keys)],
                                  [step |-> <<"follow_refs_depth", rq.depth>>,
                                   checked |-> Len(ref_candidates.keys),
                                   relevant |-> Len(ref_relevant.keys)])
                     /\ calls' = Called(Called(calls, "relevance", 1), "hop", 1)
                ELSE /\ rq' = [hopped EXCEPT
                                 !.all_followed =
                                     Followed(@, ref_candidates, ref_ids)]
                     /\ calls' = calls
    /\ pc' = "refs"
    /\ UNCHANGED <<ingest, gemini, limiter, http,
                   store, pinecone, hash_seed, llm, request, result,
                   last_search, run, prev_result, resolved>>

\* lines 307-361: the hop loop ends (depth cap, or nothing left to follow);
\* the unfollowed references and the missing documents are collected
FollowStop ==
    /\ pc = "refs"
    /\ \/ ~DepthLeft(rq.depth)
       \/ RefIds(rq.relevant_extracts, store.references, rq.all_followed) = {}
    /\ \E dt \in Elapsed :
         LET unfollowed == Unfollowed(rq.relevant_extracts, store.references,
                                      rq.all_followed)
             unresolved == rq.all_unresolved_refs \cup Range(unfollowed)
             index      == IF unresolved = {}
                           THEN [idx |-> ref_index.idx, d2p |-> doc_code_to_prefix]
                           ELSE EnsureIndex
         IN  /\ now' = now + dt
             /\ ref_index' = [built |-> ref_index.built \/ unresolved # {},
                              idx |-> index.idx]
             /\ doc_code_to_prefix' = index.d2p
             /\ rq' = [Timed(rq, "6_8_refs", now + dt) EXCEPT
                         !.unfollowed = unfollowed,
                         !.all_unresolved_refs = unresolved,
                         !.missing_docs =
                             CollectMissingDocs(index.idx, index.d2p, store,
                                                unresolved)]
    /\ pc' = "precedence"
    /\ UNCHANGED <<ingest, gemini, limiter, http,
                   store, pinecone, hash_seed, llm, request, result, calls,
                   heard, last_search, run, prev_result, resolved>>

\* lines 364-383: the precedence rules of the documents of the extracts
Precedence ==
    /\ pc = "precedence"
    /\ \E dt \in Elapsed :
         LET unique == PrecedenceKeys(rq.relevant_extracts, store.sections,
                                      store.precedence)
         IN  /\ now' = now + dt
             /\ rq' = Log(Timed([rq EXCEPT !.unique_precedence = unique],
                                "9_precedence", now + dt),
                          [step |-> "precedence", rules |-> Len(unique)])
    /\ pc' = "conflicts"
    /\ UNCHANGED <<ingest, gemini, limiter, http,
                   store, pinecone, ref_index, doc_code_to_prefix, hash_seed,
                   llm, request, result, calls, heard, last_search, run,
                   prev_result, resolved>>

\* lines 387-392: conflict detection, only for more than one extract
Conflicts ==
    /\ pc = "conflicts"
    /\ \E answer \in Answers("conflicts", ConflictAnswers), dt \in Elapsed :
         LET asked     == Len(rq.relevant_extracts.keys) > 1
             conflicts == IF asked THEN CheckConflicts(rq.relevant_extracts, answer)
                          ELSE <<>>
         IN  /\ now' = now + dt
             /\ rq' = Log(Timed([rq EXCEPT !.conflicts = conflicts],
                                "10_conflicts", now + dt),
                          [step |-> "conflicts", found |-> Len(conflicts)])
             /\ calls' = Called(calls, "conflicts", IF asked THEN 1 ELSE 0)
             /\ heard' = IF asked /\ answer = "raise" THEN Raised ELSE NoReply
    /\ pc' = "synthesize"
    /\ UNCHANGED <<ingest, gemini, limiter, http,
                   store, pinecone, ref_index, doc_code_to_prefix, hash_seed,
                   llm, request, result, last_search, run, prev_result,
                   resolved>>

\* lines 396-439: the answer, the references list and the response
Synthesize ==
    /\ pc = "synthesize"
    /\ \E answer \in Answers("synthesis", SynthesisAnswers), dt \in Elapsed :
         LET t       == now + dt
             timings == Put(Put(rq.timings, "11_synthesize", t - rq.t0),
                            "total", t - rq.pipeline_start)
         IN  /\ now' = t
             /\ rq' = [rq EXCEPT !.timings = timings]
             /\ result' = [answer |-> SynthesizeAnswer(rq.relevant_extracts, answer),
                           references |-> References(rq.relevant_extracts,
                                                     request.query_text, store),
                           steps |-> rq.steps_log,
                           timings |-> timings,
                           missing_documents |-> rq.missing_docs]
             /\ heard' = IF answer.ok THEN NoReply ELSE Raised
    /\ pc' = "done"
    /\ calls' = Called(calls, "synthesis", 1)
    /\ UNCHANGED <<ingest, gemini, limiter, http,
                   store, pinecone, ref_index, doc_code_to_prefix, hash_seed,
                   llm, request, last_search, run, prev_result, resolved>>

(***************************************************************************)
(* POST /query (api/v1/query.py) around engine.query                       *)
(***************************************************************************)
\* the endpoint has not answered
NoResponse == [status |-> 0, detail |-> "", body |-> <<>>, downloads |-> 0]

\* an endpoint without the except branch around engine.query
HttpStatusOk(res) == 200

\* the status of the answer: the except branch raises HTTPException(500)
HttpStatus(res) == IF res = RaisedResult THEN 500 ELSE 200

\* lines 81-124: the error answer, or the page image of every reference
\* whose document and page are known and the QueryResponse with its defaults
Respond ==
    /\ pc \in {"done", "failed"}
    /\ http = NoResponse
    /\ LET \* result.get(name, default)
           ResultGet(name, default) ==
               IF name \in DOMAIN result THEN result[name] ELSE default
           refs == ResultGet("references", <<>>)
           with_image ==
               {i \in Indices(refs) :
                  /\ \E d \in Indices(store.documents) :
                        store.documents[d].key_prefix = refs[i].doc_id
                  /\ refs[i].page # 0}
       IN  http' = IF HttpStatus(result) = 500
                   THEN [status |-> 500, detail |-> "Query processing failed",
                         body |-> <<>>, downloads |-> 0]
                   ELSE [status |-> 200, detail |-> "",
                         body |-> [answer |-> ResultGet("answer", Answer("", 0)),
                                   references |-> Len(refs),
                                   steps |-> Len(ResultGet("steps", <<>>)),
                                   timings |-> ResultGet("timings", <<>>),
                                   missingDocuments |->
                                       ResultGet("missing_documents", <<>>)],
                         downloads |-> Cardinality(with_image)]
    /\ UNCHANGED <<ingest,
                   store, pinecone, ref_index, doc_code_to_prefix, hash_seed,
                   now, llm, request, pc, rq, result, calls, heard, last_search,
                   run, prev_result, resolved, gemini, limiter>>

(***************************************************************************)
(* One request against a fresh engine, the provider free to answer         *)
(* anything.  No time passes on the clock of this specification.           *)
(***************************************************************************)
Boot(world, req, seed, provider, t) ==
    /\ store = world.store
    /\ pinecone = world.pinecone
    /\ ref_index = [built |-> FALSE, idx |-> EmptyDict]
    /\ doc_code_to_prefix = <<>>
    /\ hash_seed = seed
    /\ now = t
    /\ llm = provider
    /\ request = req
    /\ pc = "start"
    /\ rq = NewFrame(t)
    /\ result = NoResult
    /\ calls = NoCalls
    /\ heard = NoReply
    /\ last_search = NoSearch
    /\ run = 1
    /\ prev_result = NoResult
    /\ resolved = [first |-> EmptyDict, last |-> EmptyDict, builds |-> 0,
                   built_on |-> {}]
    /\ gemini = NoRequests
    /\ limiter = NoUploads
    /\ http = NoResponse
    /\ ingest = "none"

Init ==
    \E sc \in WideScenarios \cup LinkedScenarios :
        Boot(sc.world, sc.request, sc.seed, FreeProvider, MaxClock)

Next ==
    \/ Classify
    \/ ChatResponse
    \/ Embed
    \/ VectorSearch
    \/ AskKeywords
    \/ Gather
    \/ RelevanceCheck
    \/ ExpandRound
    \/ ExpandStop
    \/ FollowHop
    \/ FollowStop
    \/ Precedence
    \/ Conflicts
    \/ Synthesize
    \/ Respond

Spec == Init /\ [][Next]_vars

(***************************************************************************)
(* The same request served twice by one engine, the provider being a       *)
(* deterministic mock.  The wall clock runs.                               *)
(***************************************************************************)
\* the client sends its request again; query() starts afresh on the same
\* engine, store and vector index
NewQuery ==
    /\ pc = "done"
    /\ run < MaxRuns
    /\ run' = run + 1
    /\ prev_result' = result
    /\ result' = NoResult
    /\ rq' = NewFrame(now)
    /\ pc' = "start"
    /\ calls' = NoCalls
    /\ heard' = NoReply
    /\ last_search' = NoSearch
    /\ http' = NoResponse
    /\ UNCHANGED <<ingest, gemini, limiter,
                   store, pinecone, ref_index, doc_code_to_prefix, hash_seed,
                   now, llm, request, resolved>>

InitRepeat ==
    \E sc \in { Scenario(WideWorld(INITIAL_TOP_K), RequestWind, 0) }
              \cup { Scenario(World(LinkedStore(<<Doc1990, Doc1991>>),
                                    <<Sec(5), SecA>>), RequestWind, seed) :
                        seed \in 0..MaxSeed },
       mock \in Mocks :
        Boot(sc.world, sc.request, sc.seed, mock, 0)

NextRepeat ==
    \/ Next
    \/ NewQuery

SpecRepeat == InitRepeat /\ [][NextRepeat]_vars

(***************************************************************************)
(* The resolver of one engine over a store that the document API changes.  *)
(***************************************************************************)
\* a document code written with a hyphen for the underscore
CodeHyphen == Replace(Code1991, "_", <<"-">>)

\* the raw references the resolver is asked for: a sub-clause of a
\* section, the code of a loaded document as it is and in its
\* hyphen form, a section of a document that is not loaded, and a code
\* that matches nothing
RawRefs == {RefToC, Code1991, CodeHyphen, RefExternal, RefIso}

\* self._resolve_ref(ref_key), the index being built by the first call.
\* The method has no await: the calls of concurrent queries are steps that
\* follow each other.
ResolveCall(ref_key) ==
    /\ LET index == EnsureIndex
           found == Resolve(index.idx, index.d2p, store, ref_key)
       IN  /\ ref_index' = [built |-> TRUE, idx |-> index.idx]
           /\ doc_code_to_prefix' = index.d2p
           /\ resolved' = [first  |-> SetDefault(resolved.first, ref_key, found),
                           last   |-> Put(resolved.last, ref_key, found),
                           builds |-> IF ref_index.built THEN resolved.builds
                                      ELSE resolved.builds + 1,
                           built_on |-> IF ref_index.built THEN resolved.built_on
                                        ELSE Range(store.sections.keys)
                                               \cup Range(store.objects.keys)]
    /\ UNCHANGED <<ingest, gemini, limiter, http,
                   store, pinecone, hash_seed, now, llm, request, pc, rq,
                   result, calls, heard, last_search, run, prev_result>>

\* a query resolves one of the raw references
CallResolve == \E ref_key \in RawRefs : ResolveCall(ref_key)

\* the keys of an insertion-ordered dict that start with prefix
KeysWithPrefix(d, prefix) == {k \in DOMAIN d.val : StartsWith(k, prefix)}

\* DELETE /documents/{doc_id}: the vectors of the document (unless the
\* vector index fails), then every store entry whose key starts with the
\* document's key prefix, then the document
DeleteDocument ==
    /\ \E i \in Indices(store.documents), vectors_deleted \in BOOLEAN :
         LET doc    == store.documents[i]
             prefix == doc.key_prefix
         IN  /\ pinecone' = IF vectors_deleted
                            THEN SelectSeq(pinecone,
                                   LAMBDA id : ~StartsWith(id, prefix \o <<"_">>))
                            ELSE pinecone
             /\ store' = [store EXCEPT
                    !.sections   = DictRemove(@, KeysWithPrefix(@, prefix)),
                    !.references = [k \in {x \in DOMAIN @ : ~StartsWith(x, prefix)}
                                      |-> @[k]],
                    !.objects    = DictRemove(@, KeysWithPrefix(@, prefix)),
                    !.precedence = DictRemove(@, KeysWithPrefix(@, prefix)),
                    !.documents  = SubSeq(@, 1, i - 1) \o SubSeq(@, i + 1, Len(@))]
    /\ UNCHANGED <<ingest, gemini, limiter, http,
                   ref_index, doc_code_to_prefix, hash_seed, now, llm, request,
                   pc, rq, result, calls, heard, last_search, run, prev_result,
                   resolved>>

InitResolve ==
    \E sc \in LinkedScenarios :
        Boot(sc.world, sc.request, sc.seed, FreeProvider, MaxClock)

NextResolve ==
    \/ CallResolve
    \/ DeleteDocument

SpecResolve == InitResolve /\ [][NextResolve]_vars

(***************************************************************************)
(* The resolver of one engine while documents are uploaded, renamed and    *)
(* deleted.  The store holds EN 1991-1 with sections whose codes differ    *)
(* in a dot, an underscore or a trailing parenthetical; EN 1990 is the     *)
(* document that is uploaded.                                              *)
(***************************************************************************)
\* the sections of the store, at most
MaxKeys == 2

\* section codes that differ in a dot, an underscore and a parenthetical
KeyCodes ==
    { <<"4",".","1">>, <<"4","_","1">>, <<"4",".","1","(","1",")">>, <<"5">> }

\* the orders in which up to MaxKeys of the codes were stored
KeyOrders ==
    UNION { {o \in [1..n -> KeyCodes] : \A i, j \in 1..n : o[i] = o[j] => i = j} :
            n \in 1..MaxKeys }

\* a store of EN 1991-1 with the sections of these codes, in this order
IndexStore(codes) ==
    [documents  |-> <<Doc1991>>,
     sections   |->
        Dict([i \in Indices(codes) |-> Key(Prefix1991, codes[i])],
             [k \in {Key(Prefix1991, codes[i]) : i \in Indices(codes)} |->
                LET i == CHOOSE j \in Indices(codes) : Key(Prefix1991, codes[j]) = k
                IN  Section(codes[i], {}, i, Text(600, <<>>), Prefix1991)]),
     objects    |-> NoDict,
     references |-> EmptyDict,
     precedence |-> NoDict,
     kv_store   |-> <<>>]

\* a query resolves the id of a section or object that was in the store
\* when the index was built (on this very call when it is the first)
ResolveOwnKey ==
    \E key \in (IF ref_index.built THEN resolved.built_on
                ELSE Range(store.sections.keys) \cup Range(store.objects.keys)) :
        ResolveCall(key)

\* the name a client gives a document: the code of EN 1990
NewNames == {Code1990}

\* PUT /documents/{doc_id}: code and name become the new name unless
\* another document has that code (409)
RenameDocument ==
    /\ \E i \in Indices(store.documents), new_name \in NewNames :
         LET duplicate == \E j \in Indices(store.documents) :
                             /\ j # i
                             /\ Lower(store.documents[j].code) = Lower(new_name)
         IN  store' = IF duplicate THEN store
                      ELSE [store EXCEPT !.documents[i].code = new_name]
    /\ UNCHANGED <<ingest, gemini, limiter, http,
                   pinecone, ref_index, doc_code_to_prefix, hash_seed, now, llm,
                   request, pc, rq, result, calls, heard, last_search, run,
                   prev_result, resolved>>

\* POST /documents, after the validation: process_pdf of EN 1990 is queued
\* as a background task
StartIngestion ==
    /\ ingest = "none"
    /\ ingest' = "accepted"
    /\ UNCHANGED <<gemini, limiter, http,
                   store, pinecone, ref_index, doc_code_to_prefix, hash_seed,
                   now, llm, request, pc, rq, result, calls, heard, last_search,
                   run, prev_result, resolved>>

\* self.store.documents[doc_id] = record
PutDocument(docs, doc) ==
    IF \E i \in Indices(docs) : docs[i].id = doc.id
    THEN [i \in Indices(docs) |-> IF docs[i].id = doc.id THEN doc ELSE docs[i]]
    ELSE Append(docs, doc)

\* process_pdf up to the document record (lines 172-207)
IngestRecord ==
    /\ ingest = "accepted"
    /\ store' = [store EXCEPT !.documents = PutDocument(@, Doc1990)]
    /\ ingest' = "record"
    /\ UNCHANGED <<gemini, limiter, http,
                   pinecone, ref_index, doc_code_to_prefix, hash_seed, now, llm,
                   request, pc, rq, result, calls, heard, last_search, run,
                   prev_result, resolved>>

\* lines 210-216: the sections that were split are stored
IngestSections ==
    /\ ingest = "record"
    /\ store' = [store EXCEPT
                   !.sections = DictPut(@, Sec1990,
                                        Section(<<"1">>, {}, 1,
                                                Text(600, "basis" :> 1),
                                                Prefix1990))]
    /\ ingest' = "sections"
    /\ UNCHANGED <<gemini, limiter, http,
                   pinecone, ref_index, doc_code_to_prefix, hash_seed, now, llm,
                   request, pc, rq, result, calls, heard, last_search, run,
                   prev_result, resolved>>

\* lines 219-225: no object is described; the references of the section
\* (none found, or the extraction failed) are stored
IngestReferences ==
    /\ ingest = "sections"
    /\ store' = [store EXCEPT !.references = Put(@, Sec1990, <<>>)]
    /\ ingest' = "references"
    /\ UNCHANGED <<gemini, limiter, http,
                   pinecone, ref_index, doc_code_to_prefix, hash_seed, now, llm,
                   request, pc, rq, result, calls, heard, last_search, run,
                   prev_result, resolved>>

\* line 228: the vector of the section is upserted; where it ranks for the
\* query is the provider's matter
IngestVectors ==
    /\ ingest = "references"
    /\ \E front \in BOOLEAN :
         pinecone' = IF Sec1990 \in Range(pinecone) THEN pinecone
                     ELSE IF front THEN <<Sec1990>> \o pinecone
                     ELSE Append(pinecone, Sec1990)
    /\ ingest' = "vectors"
    /\ UNCHANGED <<gemini, limiter, http,
                   store, ref_index, doc_code_to_prefix, hash_seed, now, llm,
                   request, pc, rq, result, calls, heard, last_search, run,
                   prev_result, resolved>>

\* lines 231-240: no precedence rule and no key-value pair is found; the
\* status of the record is set, which raises KeyError when the record is
\* gone
IngestFinish ==
    /\ ingest = "vectors"
    /\ ingest' = IF \E i \in Indices(store.documents) :
                       store.documents[i].id = Doc1990.id
                 THEN "ready" ELSE "failed"
    /\ UNCHANGED <<gemini, limiter, http,
                   store, pinecone, ref_index, doc_code_to_prefix, hash_seed,
                   now, llm, request, pc, rq, result, calls, heard, last_search,
                   run, prev_result, resolved>>

InitIndex ==
    \E codes \in KeyOrders :
        Boot(World(IndexStore(codes), <<>>), RequestWind, 0, FreeProvider,
             MaxClock)

NextIndex ==
    \/ ResolveOwnKey
    \/ DeleteDocument
    \/ RenameDocument
    \/ StartIngestion
    \/ IngestRecord
    \/ IngestSections
    \/ IngestReferences
    \/ IngestVectors
    \/ IngestFinish

SpecIndex == InitIndex /\ [][NextIndex]_vars

(***************************************************************************)
(* DELETE /documents/{doc_id} on stores of several documents, among the    *)
(* steps of a background ingestion (documents.py, document_processor.py).  *)
(***************************************************************************)
\* EN 1991-1-4, whose key prefix begins with the key prefix of EN 1991-1
DocPart == [id |-> "en1991-1-4", code |-> Code1991 \o <<"-","4">>,
            key_prefix |-> Prefix1991 \o <<"-","4">>]

\* a record without key_prefix: doc.get("key_prefix", "") is ""
DocLegacy == [id |-> "pd6688", code |-> <<"P","D","_","6","6","8","8">>,
              key_prefix |-> <<>>]

\* the documents a store of the model may hold
MaxDocs == 3

\* the orders in which up to MaxDocs of these documents were stored
DocOrders ==
    LET all == {Doc1991, DocPart, DocLegacy}
    IN  UNION { {o \in [1..n -> all] : \A i, j \in 1..n : o[i] = o[j] => i = j} :
                n \in 1..(IF MaxDocs < 3 THEN MaxDocs ELSE 3) }

\* the keys of the model under a key prefix: a section and a table
SecOf(doc) == Key(doc.key_prefix, <<"1">>)

ObjOf(doc) == Key(doc.key_prefix, <<"T","1">>)

\* a store in which every document with a key prefix has a section with a
\* reference and a precedence rule, and a table
DocsStore(docs) ==
    LET with  == SelectSeq(docs, LAMBDA d : d.key_prefix # <<>>)
        secs  == [i \in Indices(with) |-> SecOf(with[i])]
        objs  == [i \in Indices(with) |-> ObjOf(with[i])]
        DocAt(keys, k) == with[CHOOSE i \in Indices(with) : keys[i] = k]
    IN  [documents  |-> docs,
         sections   |->
            Dict(secs, [k \in Range(secs) |->
                          Section(<<"1">>, {}, 1, Text(600, <<>>),
                                  DocAt(secs, k).key_prefix)]),
         objects    |->
            Dict(objs, [k \in Range(objs) |->
                          [code |-> <<"T","1">>, title |-> {},
                           description |-> Text(40, <<>>), page |-> 2,
                           doc_id |-> DocAt(objs, k).id]]),
         references |-> [k \in Range(secs) |-> <<ObjOf(DocAt(secs, k))>>],
         precedence |->
            Dict(secs, [k \in Range(secs) |->
                          [supersedes |-> <<"ENV_1991">>, superseded_by |-> <<>>,
                           note |-> "national annex"]]),
         kv_store   |-> <<>>]

InitDelete ==
    \E docs \in DocOrders :
        Boot(World(DocsStore(docs),
                   SelectSeq([i \in Indices(docs) |-> SecOf(docs[i])],
                             LAMBDA k : Has(DocsStore(docs).sections, k))),
             RequestWind, 0, FreeProvider, MaxClock)

NextDelete ==
    \/ DeleteDocument
    \/ StartIngestion
    \/ IngestRecord
    \/ IngestSections
    \/ IngestReferences
    \/ IngestVectors
    \/ IngestFinish

SpecDelete == InitDelete /\ [][NextDelete]_vars

(***************************************************************************)
(* The stages of one request from the classifier to the first relevance    *)
(* check, over corpora in which the keyword search has to rank and to cut, *)
(* with a provider that may also answer off the prompt.                    *)
(***************************************************************************)
\* the sections of the largest searched corpus: more than the keyword
\* search returns
MaxSections == 22

\* how the word "wind" is spread over a searched corpus: in bodies (up to
\* six times) and in every third title, or twice in every body
Spreads == {"titled", "even"}

\* the occurrences of "wind" in the body of section i
BodyCount(spread, i) == IF spread = "titled" THEN i % 7 ELSE 2

\* whether "wind" is in the title of section i
InTitle(spread, i) == spread = "titled" /\ i % 3 = 0

\* a figure of EN 1991-1
ObjF == Key(Prefix1991, <<"F","1">>)

\* a vector id whose section is no longer in the store
SecGone == Key(Prefix1991, <<"9","9">>)

\* a corpus of n numbered sections, a table and a figure
SearchStore(n, spread) ==
    [documents  |-> <<Doc1991>>,
     sections   |->
        Dict([i \in 1..n |-> Sec(i)],
             [k \in {Sec(i) : i \in 1..n} |->
                LET i == CHOOSE j \in 1..n : Sec(j) = k
                IN  Section(Digits(i),
                            IF InTitle(spread, i) THEN {"wind"} ELSE {}, i,
                            Text(100 * BodyCount(spread, i),
                                 IF BodyCount(spread, i) = 0 THEN <<>>
                                 ELSE ("wind" :> BodyCount(spread, i))),
                            Prefix1991)]),
     objects    |->
        Dict(<<ObjT, ObjF>>,
             (ObjT :> [code |-> <<"T","1">>, title |-> {"load"},
                       description |-> Text(40, "load" :> 1),
                       page |-> 3, doc_id |-> "en1991"]) @@
             (ObjF :> [code |-> <<"F","1">>, title |-> {},
                       description |-> Text(60, "wind" :> 3),
                       page |-> 4, doc_id |-> "en1991"])),
     references |-> EmptyDict,
     precedence |-> NoDict,
     kv_store   |-> <<>>]

\* the searched corpus under a vector index that lists a section, a
\* deleted section, a table, and a section again
SearchWorld(n, spread) ==
    World(SearchStore(n, spread), <<Sec(2), SecGone, ObjT, Sec(1)>>)

FrontScenarios ==
    { Scenario(SearchWorld(n, spread), RequestWind, 0) :
        n \in {0, 3, KEYWORD_HIT_LIMIT, MaxSections}, spread \in Spreads }
    \cup { Scenario(World(WideStore(0), <<Sec(1), Sec(2)>>), RequestWind, 0),
           Scenario(SearchWorld(3, "titled"), RequestHi, 0),
           Scenario(SearchWorld(3, "even"), RequestWindLong, 0) }

InitFront ==
    \E sc \in FrontScenarios :
        Boot(sc.world, sc.request, sc.seed, LooseProvider, MaxClock)

NextFront ==
    \/ Classify
    \/ ChatResponse
    \/ Embed
    \/ VectorSearch
    \/ AskKeywords
    \/ Gather
    \/ RelevanceCheck

SpecFront == InitFront /\ [][NextFront]_vars

(***************************************************************************)
(* The provider request of the classifier, among the requests of other     *)
(* callers of the one GeminiService (main.py creates it once and hands it  *)
(* to the QueryEngine and to every DocumentProcessor).                     *)
(***************************************************************************)
\* the requests that are inside "async with self._sem"
InUse ==
    gemini.holders + (IF gemini.phase \in {"posting", "sleeping"} THEN 1 ELSE 0)

\* "async with self._sem" of the classifier's request: it takes a permit
\* and starts its first attempt, or waits for one
Enter ==
    /\ pc = "start"
    /\ \/ gemini.phase = "idle"
       \/ gemini.phase = "waiting" /\ CanAcquire(Taken(gemini.free))
    /\ gemini' = IF CanAcquire(Taken(gemini.free))
                 THEN [gemini EXCEPT !.phase = "posting", !.free = Acquire(@)]
                 ELSE [gemini EXCEPT !.phase = "waiting"]
    /\ UNCHANGED <<ingest,
                   store, pinecone, ref_index, doc_code_to_prefix, hash_seed,
                   now, llm, request, pc, rq, result, calls, heard, last_search,
                   run, prev_result, resolved, limiter, http>>

\* lines 169-179: one attempt is answered; after 429 and with retries left
\* the request sleeps, else it returns the completion or raises, and leaves
\* the "async with" block
Post ==
    /\ gemini.phase = "posting"
    /\ \E status \in Statuses, text \in {WordQuery, WordChat} :
         IF ShouldRetry(status, gemini.attempt)
         THEN /\ gemini' = [gemini EXCEPT
                              !.phase = "sleeping",
                              !.statuses = Append(@, status),
                              !.waits = Append(@, RETRY_BASE_DELAY *
                                                  (gemini.attempt + 1))]
              /\ llm' = llm
         ELSE /\ gemini' = [gemini EXCEPT
                              !.phase = IF status = 200 THEN "returned"
                                        ELSE "raised",
                              !.statuses = Append(@, status),
                              !.free = Release(@)]
              /\ llm' = [llm EXCEPT !.classify = IF status = 200
                                                 THEN Completion(text)
                                                 ELSE Raised]
    /\ UNCHANGED <<ingest,
                   store, pinecone, ref_index, doc_code_to_prefix, hash_seed,
                   now, request, pc, rq, result, calls, heard, last_search,
                   run, prev_result, resolved, limiter, http>>

\* lines 177-178: asyncio.sleep(delay) is over, the next attempt starts
Wake ==
    /\ gemini.phase = "sleeping"
    /\ gemini' = [gemini EXCEPT !.phase = "posting", !.attempt = @ + 1]
    /\ UNCHANGED <<ingest,
                   store, pinecone, ref_index, doc_code_to_prefix, hash_seed,
                   now, llm, request, pc, rq, result, calls, heard, last_search,
                   run, prev_result, resolved, limiter, http>>

\* the request of another caller takes a permit, when one is free
OtherEnter ==
    /\ gemini.begun < MaxOthers
    /\ CanAcquire(Taken(gemini.free))
    /\ gemini' = [gemini EXCEPT !.holders = @ + 1, !.begun = @ + 1,
                                !.free = Acquire(@)]
    /\ UNCHANGED <<ingest,
                   store, pinecone, ref_index, doc_code_to_prefix, hash_seed,
                   now, llm, request, pc, rq, result, calls, heard, last_search,
                   run, prev_result, resolved, limiter, http>>

\* the request of another caller returns or raises and gives its permit back
OtherLeave ==
    /\ gemini.holders > 0
    /\ gemini' = [gemini EXCEPT !.holders = @ - 1, !.free = Release(@)]
    /\ UNCHANGED <<ingest,
                   store, pinecone, ref_index, doc_code_to_prefix, hash_seed,
                   now, llm, request, pc, rq, result, calls, heard, last_search,
                   run, prev_result, resolved, limiter, http>>

InitLlm ==
    Boot(WideWorld(3), RequestWind, 0, [FreeProvider EXCEPT !.det = TRUE],
         MaxClock)

\* the classifier goes on when its request has returned or raised
NextLlm ==
    \/ Enter
    \/ Post
    \/ Wake
    \/ OtherEnter
    \/ OtherLeave
    \/ gemini.phase \in {"returned", "raised"} /\ Classify

SpecLlm == InitLlm /\ [][NextLlm]_vars

(***************************************************************************)
(* POST /documents (api/v1/documents.py) up to the rate limit: the uploads *)
(* of the clients of one process, the wall clock running.                  *)
(***************************************************************************)
\* upload_document: 400 when validate_file_upload (or the filename test
\* before it) rejects the file, 429 when check_rate_limit, which runs last,
\* raises, else the upload is recorded and accepted
Upload ==
    /\ SumSeq([i \in Indices(SetToSeq(Clients)) |->
                 Len(limiter.passed[SetToSeq(Clients)[i]])]) < MaxPassed
    /\ \E client \in Clients, file \in Files :
         LET kept == Kept(limiter.uploads[client], limiter.clock)
         IN  limiter' =
                 IF file # "ok"
                 THEN [limiter EXCEPT !.status = 400]
                 ELSE IF RateLimited(Len(kept))
                 THEN [limiter EXCEPT !.uploads[client] = kept,
                                      !.status = 429]
                 ELSE [limiter EXCEPT
                         !.uploads[client] = Append(kept, limiter.clock),
                         !.passed[client] = Append(@, limiter.clock),
                         !.status = 202]
    /\ UNCHANGED <<ingest,
                   store, pinecone, ref_index, doc_code_to_prefix, hash_seed,
                   now, llm, request, pc, rq, result, calls, heard, last_search,
                   run, prev_result, resolved, gemini, http>>

\* time passes on the wall clock
Tick ==
    /\ \E i \in Indices(UploadInstants) :
         /\ UploadInstants[i] > limiter.clock
         /\ limiter' = [limiter EXCEPT !.clock = UploadInstants[i]]
    /\ UNCHANGED <<ingest,
                   store, pinecone, ref_index, doc_code_to_prefix, hash_seed,
                   now, llm, request, pc, rq, result, calls, heard, last_search,
                   run, prev_result, resolved, gemini, http>>

InitUpload == Boot(WideWorld(0), RequestHi, 0, FreeProvider, MaxClock)

NextUpload ==
    \/ Upload
    \/ Tick

SpecUpload == InitUpload /\ [][NextUpload]_vars

(***************************************************************************)
(* GET /references/{section_id}/graph (api/v1/references.py) on stores     *)
(* whose sections refer to each other in every order.                      *)
(***************************************************************************)
\* the largest depth a client of the model asks for (the endpoint takes 1-5)
MaxDepth == 3

\* a reference to a document that is not loaded
GraphExternal == RefIso

\* _add_node: a node is added once, as a section, an object or an external
\* reference
AddNode(nodes, sid, st) ==
    IF \E i \in Indices(nodes) : nodes[i].id = sid THEN nodes
    ELSE Append(nodes,
                [id |-> sid,
                 type |-> IF Has(st.sections, sid) THEN "section"
                          ELSE IF Has(st.objects, sid) THEN "object"
                          ELSE "external"])

RECURSIVE Traverse(_, _, _, _, _)
RECURSIVE TraverseRefs(_, _, _, _, _, _)
\* _traverse(sid, current_depth) on the graph g built so far
Traverse(g, sid, current_depth, depth, st) ==
    IF current_depth > depth \/ sid \in g.visited THEN g
    ELSE TraverseRefs([g EXCEPT !.visited = @ \cup {sid},
                                !.nodes = AddNode(@, sid, st)],
                      sid, Get(st.references, sid), current_depth, depth, st)

\* the loop "for ref_key in refs" of _traverse(sid, current_depth)
TraverseRefs(g, sid, refs, current_depth, depth, st) ==
    IF refs = <<>> THEN g
    ELSE LET ref_key == Head(refs)
             added   == [g EXCEPT !.nodes = AddNode(@, ref_key, st),
                                  !.edges = Append(@, [source |-> sid,
                                                       target |-> ref_key])]
             below   == IF current_depth < depth
                        THEN Traverse(added, ref_key, current_depth + 1, depth, st)
                        ELSE added
         IN  TraverseRefs(below, sid, Tail(refs), current_depth, depth, st)

\* the endpoint: 400 for a depth outside 1-5, 404 for an unknown section,
\* else the graph around the section
GetReferenceGraph ==
    /\ http.status = 0
    /\ \E section_id \in {Sec(1), Sec(3), SecGone},
          depth \in (0..MaxDepth) \cup {6} :
         /\ request' = [section_id |-> section_id, depth |-> depth]
         /\ http' =
              IF depth < 1 \/ depth > 5
              THEN [status |-> 400, detail |-> "Depth must be 1-5"]
              ELSE IF ~Has(store.sections, section_id)
              THEN [status |-> 404, detail |-> "Section not found"]
              ELSE LET g == Traverse([nodes |-> <<>>, edges |-> <<>>,
                                      visited |-> {}],
                                     section_id, 1, depth, store)
                   IN  [status |-> 200, nodes |-> g.nodes, edges |-> g.edges,
                        focusNodeId |-> section_id]
    /\ UNCHANGED <<store, pinecone, ref_index, doc_code_to_prefix, hash_seed,
                   now, llm, pc, rq, result, calls, heard, last_search, run,
                   prev_result, resolved, gemini, limiter, ingest>>

\* the reference lists of the model's stores: section 1 refers to sections
\* 2 and 3 in either order, 2 to one of 1, 3 and 4, 3 to 4 (and to a
\* document that is not loaded) or back to 1, 4 to 5 or back to 2
GraphReferences ==
    { (Sec(1) :> r1) @@ (Sec(2) :> r2) @@ (Sec(3) :> r3) @@ (Sec(4) :> r4) :
        r1 \in {<<>>, <<Sec(2)>>, <<Sec(3)>>, <<Sec(2), Sec(3)>>,
                <<Sec(3), Sec(2)>>},
        r2 \in {<<>>, <<Sec(1)>>, <<Sec(3)>>, <<Sec(4)>>},
        r3 \in {<<>>, <<Sec(4)>>, <<Sec(1)>>, <<Sec(4), GraphExternal>>},
        r4 \in {<<>>, <<Sec(5)>>, <<Sec(2)>>} }

InitGraph ==
    \E refs \in GraphReferences :
        Boot(World([WideStore(5) EXCEPT !.references = refs], <<>>),
             RequestWind, 0, FreeProvider, MaxClock)

NextGraph == GetReferenceGraph

SpecGraph == InitGraph /\ [][NextGraph]_vars

(***************************************************************************)
(* Properties.                                                             *)
(***************************************************************************)
\* the keys of the relevant extracts
RelevantKeys == DOMAIN rq.relevant_extracts.val

\* query() returned a response that carries every field
FullResponse ==
    /\ pc = "done"
    /\ DOMAIN result = {"answer", "references", "steps", "timings",
                        "missing_documents"}

\* C1: after every relevance check the relevant extracts are extracts of
\* candidates: the keys of relevant_extracts are among the ids that were
\* materialised as candidates and passed to the relevance filter, whatever
\* the provider answers.
C1_RelevantAmongCandidates == RelevantKeys \subseteq rq.materialised

C3_ExpansionBounded ==
    /\ rq.expansion_rounds <= MAX_EXPANSION_ROUNDS
    /\ calls.search <= 1 + MAX_EXPANSION_ROUNDS
    /\ rq.top_k <= INITIAL_TOP_K + MAX_EXPANSION_ROUNDS * TOP_K_STEP
    /\ rq.top_k <= 60

\* the round cap ends the loop: five rounds on a full window of 60 hits
\* whose bottom two are relevant
C3_CapEndsExpansion ==
    /\ pc = "refs"
    /\ rq.expansion_rounds = MAX_EXPANSION_ROUNDS
    /\ rq.top_k = 60
    /\ Len(rq.vector_hits) = 60
    /\ Has(rq.relevant_extracts, rq.vector_hits[60])

\* C4: every call of _resolve_ref for a reference returns what the first
\* call for that reference returned, for the lifetime of the engine.
C4_ResolveAsFirstCall ==
    \A ref_key \in DOMAIN resolved.last :
        resolved.last[ref_key] = resolved.first[ref_key]

\* C5: when a relevant section refers to EN_1992-1-1_6.1 and EN 1992-1-1 is
\* not loaded, the reference is unresolved, EN_1992-1-1 is in
\* missing_documents and the response is a normal one, whichever other
\* documents are loaded.
C5_MissingDocumentListed ==
    (/\ pc = "done"
     /\ \E sid \in RelevantKeys :
           \E i \in Indices(Get(store.references, sid)) :
              Get(store.references, sid)[i] = RefExternal)
    => /\ FullResponse
       /\ RefExternal \in rq.all_unresolved_refs
       /\ \E i \in Indices(result.missing_documents) :
             result.missing_documents[i] = CodeExternal

\* C6: EN 1991-1 being loaded under the code EN_1991-1, a reference that
\* writes the code in that form or with a hyphen for the underscore
\* resolves to a key of that document (nothing having been deleted).
C6_OtherFormSameDocument ==
    (\E i \in Indices(store.documents) : store.documents[i] = Doc1991)
    /\ store.sections.keys = LinkedSections(store.documents).keys
    => \A ref_key \in {Code1991, CodeHyphen} \cap DOMAIN resolved.last :
          StartsWith(resolved.last[ref_key], Prefix1991 \o <<"_">>)

\* the fields of a response other than its timings
Content(response) ==
    [f \in (DOMAIN response) \ {"timings"} |-> response[f]]

\* C7: with a deterministic mock of the provider, the embedding and the
\* vector index, and an unchanged store, the second run of the same request
\* on the same engine returns the answer, the references, the steps and the
\* missing documents of the first run (the timings may differ).
C7_SameContentOnRepeat ==
    (run > 1 /\ pc = "done") => Content(result) = Content(prev_result)

\* C7 as stated: the second run returns the output of the first run.
C7_SameOutputOnRepeat ==
    (run > 1 /\ pc = "done") => result = prev_result

\* a second run that found the reference index built and followed
\* references, with timings that differ from those of the first run
C7_RepeatedWithOtherTimings ==
    /\ run > 1
    /\ FullResponse
    /\ ref_index.built
    /\ calls.hop > 0
    /\ Len(result.references) > 1
    /\ result.timings # prev_result.timings

\* at least one of the two lowest-ranked hits of the last vector search is
\* relevant
LastBottomRelevant ==
    \E i \in Indices(BottomTwo(last_search.hits)) :
        BottomTwo(last_search.hits)[i] \in RelevantKeys

\* a step of the expansion loop runs a round: one more vector search, with
\* top_k increased by exactly TOP_K_STEP
RoundRuns ==
    /\ rq'.expansion_rounds = rq.expansion_rounds + 1
    /\ rq'.top_k = rq.top_k + TOP_K_STEP
    /\ calls'.search = calls.search + 1
    /\ last_search'.top_k = last_search.top_k + TOP_K_STEP

\* a step of the expansion loop leaves the loop without another search
LoopLeft ==
    /\ pc' = "refs"
    /\ UNCHANGED <<calls, last_search>>
    /\ rq'.expansion_rounds = rq.expansion_rounds
    /\ rq'.top_k = rq.top_k

\* C8: at the head of the expansion loop a round runs exactly when fewer
\* than MAX_EXPANSION_ROUNDS rounds have run, the last vector search
\* returned a full window and one of its two lowest-ranked hits is relevant;
\* otherwise the loop is left.  With 10 first hits whose bottom two are
\* relevant a round with top_k = 20 runs, and it is the only one when the
\* bottom two of its hits are not relevant.
C8_RoundExactlyWhenDue ==
    [][ pc = "expand" =>
          /\ RoundRuns <=> /\ rq.expansion_rounds < MAX_EXPANSION_ROUNDS
                           /\ Len(last_search.hits) >= last_search.top_k
                           /\ LastBottomRelevant
          /\ RoundRuns \/ LoopLeft
          /\ (/\ rq.expansion_rounds = 0
              /\ Len(last_search.hits) = 10
              /\ LastBottomRelevant)
             => RoundRuns /\ rq'.top_k = 20
          /\ (/\ rq.expansion_rounds = 1
              /\ ~LastBottomRelevant)
             => LoopLeft /\ rq'.expansion_rounds = 1 ]_vars

\* exactly one round: the first 10 hits had their bottom two relevant, the
\* round with top_k = 20 brought 20 hits whose bottom two are not relevant
C8_OneRoundOnly ==
    /\ pc = "refs"
    /\ rq.expansion_rounds = 1
    /\ last_search.top_k = 20
    /\ Len(last_search.hits) = 20
    /\ {Sec(9), Sec(10)} \subseteq RelevantKeys
    /\ ~LastBottomRelevant

\* the calls of the search pipeline proper
SearchCalls == {"embed", "search", "keywords", "relevance", "hop", "conflicts",
                "synthesis"}

\* C9: once the classifier has returned chat, the request only waits for
\* the conversational reply and ends with it: the response carries the
\* reply, no references and no missing documents, and no embedding, vector
\* search, keyword, relevance, conflict or synthesis call is made.
C9_ChatEndsRequest ==
    rq.intent = "chat" =>
        /\ pc \in {"chat", "done"}
        /\ \A kind \in SearchCalls : calls[kind] = 0
        /\ pc = "done" =>
              /\ FullResponse
              /\ result.answer.kind \in {"chat", "apology"}
              /\ result.references = <<>>
              /\ result.missing_documents = <<>>
              /\ calls.chat = 1

\* a request answered by the conversational reply
C9_ChatAnswered ==
    /\ pc = "done"
    /\ rq.intent = "chat"
    /\ result.answer.kind = "chat"

\* the classifier has just returned and its answer is at hand
JustClassified == pc \in {"chat", "embed"}

\* C10: the classifier never raises and returns chat or query; it returns
\* query when the provider call fails and whenever the provider's answer,
\* stripped of surrounding whitespace and lower-cased, is neither chat nor
\* query.
C10_ClassifierDefaultsToQuery ==
    /\ calls.classify > 0 => rq.intent \in {"chat", "query"}
    /\ pc = "failed" => calls.embed > 0
    /\ JustClassified =>
          /\ ~heard.ok => rq.intent = "query"
          /\ (heard.ok /\ Lower(Strip(heard.text)) \notin {WordChat, WordQuery})
             => rq.intent = "query"

\* C10 as stated: query for every answer other than exactly chat or query.
C10_QueryUnlessExactWord ==
    JustClassified =>
        /\ ~heard.ok => rq.intent = "query"
        /\ (heard.ok /\ heard.text \notin {WordChat, WordQuery})
           => rq.intent = "query"

\* the provider call failed and the classifier returned query
C10_FailureGivesQuery ==
    /\ pc = "embed"
    /\ heard = Raised
    /\ rq.intent = "query"

\* Gather has run, the keyword search hit nothing and no vector hit is in
\* the store: the merged hits materialise no candidate
NoCandidate ==
    /\ rq.intent = "query"
    /\ Len(rq.steps_log) >= 3
    /\ rq.steps_log[3].keyword_hits = 0
    /\ \A i \in Indices(rq.vector_hits) :
          /\ ~Has(store.sections, rq.vector_hits[i])
          /\ ~Has(store.objects, rq.vector_hits[i])

\* C11: when the merged vector and keyword hits materialise no candidate,
\* query returns the no-results answer without references, having made no
\* relevance, conflict, synthesis or chat call and no vector search beyond
\* the first.
C11_NoCandidateNoFurtherCall ==
    NoCandidate =>
        /\ pc = "done"
        /\ result.answer = Answer("no_results", NO_RESULTS_CHARS)
        /\ result.references = <<>>
        /\ calls = [NoCalls EXCEPT !["classify"] = 1, !["embed"] = 1,
                                   !["search"] = 1, !["keywords"] = 1]

\* the index lists sections that the store has lost, and query returned
\* the no-results answer
C11_StaleHitsNoResults ==
    /\ NoCandidate
    /\ rq.vector_hits # <<>>
    /\ pc = "done"
    /\ result.answer.kind = "no_results"

\* C12: every result that query returns, on the chat path, the no-results
\* path and the full pipeline path, has the five fields answer, references,
\* steps, timings and missing_documents.
C12_EveryResultHasFiveFields == pc = "done" => FullResponse

\* the stage that follows a stage whose completion failed
StageAfterFailure ==
    { <<"start", "embed">>, <<"keywords", "gather">>, <<"relevance", "expand">>,
      <<"expand", "expand">>, <<"refs", "refs">>, <<"conflicts", "synthesize">> }

\* C13: a failure of the provider in classification, keyword extraction,
\* a relevance batch or conflict detection does not abort the request: the
\* request fails in no stage after the embedding, the step whose completion
\* raised goes on to the next stage without a result yet, and a request
\* that ends returns a non-empty answer.
C13_StageFailureDoesNotAbort ==
    /\ [](pc = "failed" => calls.keywords = 0)
    /\ [](pc = "done" => result.answer.len > 0)
    /\ [][(heard' = Raised /\ calls' # calls /\ pc # "synthesize")
             => /\ <<pc, pc'>> \in StageAfterFailure
                /\ result' = NoResult]_vars

\* the first relevance check has just returned
FirstCheckReturned == pc = "expand" /\ rq.expansion_rounds = 0

\* C15: when the call of a relevance batch fails, the result of the check
\* holds every candidate of that batch with the first 500 characters of its
\* content, and for the candidates of every other batch what the answer to
\* that batch alone gives.
C15_FailedBatchKeepsItsCandidates ==
    FirstCheckReturned =>
        \A b \in DOMAIN rq.shapes :
            LET batch == Batches(rq.candidates)[b]
                alone == KeepRelevant(RelevanceAnswer(rq.shapes[b], batch).items)
            IN  \A k \in DOMAIN batch.val :
                    IF rq.shapes[b] = "raise"
                    THEN /\ Has(rq.relevant_extracts, k)
                         /\ rq.relevant_extracts.val[k] =
                               LET content == rq.candidates.val[k].content
                               IN  Text(IF content.len < FALLBACK_CONTENT_CHARS
                                        THEN content.len
                                        ELSE FALLBACK_CONTENT_CHARS,
                                        content.words)
                    ELSE /\ Has(rq.relevant_extracts, k) <=> Has(alone, k)
                         /\ Has(alone, k) =>
                               rq.relevant_extracts.val[k] = alone.val[k]

\* one batch failed on a candidate longer than 500 characters while another
\* batch of the same check was answered
C15_OneBatchFailedOfSeveral ==
    /\ FirstCheckReturned
    /\ \E b, c \in DOMAIN rq.shapes :
          /\ rq.shapes[b] = "raise"
          /\ rq.shapes[c] = "all"
          /\ \E k \in DOMAIN Batches(rq.candidates)[b].val :
                /\ rq.candidates.val[k].content.len > FALLBACK_CONTENT_CHARS
                /\ rq.relevant_extracts.val[k].len = FALLBACK_CONTENT_CHARS

\* the synthesis call of the request failed
SynthesisFailed == pc = "done" /\ calls.synthesis = 1 /\ heard = Raised

\* C16: when the synthesis call fails, query does not raise: it returns a
\* full response whose answer is the fixed prefix and the raw extracts,
\* hence not empty, with one reference for every relevant extract.
C16_SynthesisFailureGivesExtracts ==
    SynthesisFailed =>
        /\ FullResponse
        /\ result.answer.kind = "raw_extracts"
        /\ result.answer.len >= FALLBACK_PREFIX_CHARS
        /\ result.answer.len > 0
        /\ [i \in Indices(result.references) |-> result.references[i].id]
              = rq.relevant_extracts.keys

\* the synthesis call failed over at least two extracts
C16_RawExtractsReturned ==
    /\ SynthesisFailed
    /\ Len(result.references) > 1
    /\ result.answer.len > FALLBACK_PREFIX_CHARS

\* C19: whenever engine.query raises, the endpoint answers HTTP 500 with a
\* message and no body, and looks up no page image.
C19_RaiseGivesError500 ==
    /\ pc = "failed" => result = RaisedResult
    /\ (result = RaisedResult /\ http # NoResponse) =>
          /\ http.status = 500
          /\ http.detail # ""
          /\ http.body = <<>>
          /\ http.downloads = 0

\* the embedding call failed and the endpoint answered the client
C19_EmbeddingFailureAnswered ==
    /\ pc = "failed"
    /\ calls.embed = 1
    /\ calls.search = 0
    /\ http.status = 500

\* the followed request got 429 on every attempt and raised
Exhausted ==
    /\ gemini.phase = "raised"
    /\ gemini.statuses = [i \in 1..(MAX_RETRIES + 1) |-> 429]

\* C14: when an LLM request has exhausted its retries on rate limiting,
\* the error propagates: the request of the caller ends in failure.
C14_ExhaustionFailsRequest ==
    (Exhausted /\ pc # "start") => (pc = "failed" /\ result = RaisedResult)

\* C17: every completion request holds a permit of the one semaphore while
\* it is in flight, so at most MAX_CONCURRENT_LLM requests, of all callers
\* together, are in flight at any time.
C17_AtMostTenInFlight ==
    /\ InUse <= MAX_CONCURRENT_LLM
    /\ InUse <= 10
    /\ gemini.phase = "waiting" => gemini.statuses = <<>>

\* ten requests are in flight and the classifier's request waits
C17_EleventhWaits ==
    /\ gemini.holders = MAX_CONCURRENT_LLM
    /\ gemini.phase = "waiting"

\* C18: a request is attempted at most 1 + MAX_RETRIES = 4 times; every
\* retry follows a 429 answer; the waits before the retries are 12, 24 and
\* 36 seconds; the request returns only on 200 and raises on 429 at the
\* fourth attempt, on every other error status and without an answer.
C18_RetriesOnlyAfter429 ==
    LET n == Len(gemini.statuses)
    IN  /\ n <= MAX_RETRIES + 1
        /\ n <= 4
        /\ Len(gemini.waits) <= n
        /\ Len(gemini.waits) = gemini.attempt
              + (IF gemini.phase = "sleeping" THEN 1 ELSE 0)
        /\ \A i \in Indices(gemini.waits) :
              /\ gemini.statuses[i] = 429
              /\ gemini.waits[i] = 12 * i
              /\ i > 1 => gemini.waits[i] > gemini.waits[i - 1]
        /\ gemini.phase = "posting" => n = Len(gemini.waits)
        /\ gemini.phase = "returned" => n > 0 /\ gemini.statuses[n] = 200
        /\ gemini.phase = "raised" =>
              /\ n > 0
              /\ gemini.statuses[n] # 200
              /\ gemini.statuses[n] = 429 => n = 4
        /\ gemini.phase \in {"returned", "raised"} => n = Len(gemini.waits) + 1

\* four attempts, three waits, and the request raised
C18_FourthAttemptFails ==
    /\ Exhausted
    /\ gemini.waits = <<12, 24, 36>>
    /\ gemini.attempt = MAX_RETRIES

\* C20: for every client, the uploads that passed check_rate_limit within
\* any window of window_seconds number at most max_uploads; the limiter
\* holds only timestamps of uploads that passed; an upload answered 429 or
\* 400 adds no entry, and one answered 400 leaves the limiter as it was.
C20_AtMostTenUploadsPerWindow ==
    /\ [](\A c \in Clients :
            /\ \A i \in Indices(limiter.passed[c]) :
                  Cardinality({j \in Indices(limiter.passed[c]) :
                                 /\ limiter.passed[c][j] <= limiter.passed[c][i]
                                 /\ limiter.passed[c][i] - limiter.passed[c][j]
                                      < 3600}) <= 10
            /\ Range(limiter.uploads[c]) \subseteq Range(limiter.passed[c])
            /\ Len(limiter.uploads[c]) <= Len(limiter.passed[c]))
    /\ [][limiter'.status \in {400, 429} =>
            /\ limiter'.passed = limiter.passed
            /\ \A c \in Clients :
                  Len(limiter'.uploads[c]) <= Len(limiter.uploads[c])
            /\ limiter'.status = 400 /\ limiter'.clock = limiter.clock
                  => limiter'.uploads = limiter.uploads]_vars

\* a client with ten uploads in the running window was answered 429 while
\* another client had an upload accepted
C20_EleventhUploadRejected ==
    /\ limiter.status = 429
    /\ \E c, d \in Clients :
          /\ c # d
          /\ Len(Kept(limiter.uploads[c], limiter.clock)) = MAX_UPLOADS
          /\ limiter.passed[d] # <<>>

(***************************************************************************)
(* Reference following: what a hop visits                                   *)
(***************************************************************************)
\* the reference strings that the hop starting in this state collects
HopRefs == RefIds(rq.relevant_extracts, store.references, rq.all_followed)

\* the ids they resolve to
HopResolved ==
    {Resolve(EnsureIndex.idx, EnsureIndex.d2p, store, r) : r \in HopRefs}
        \ {None}

\* the resolved ids that the hop hands to the relevance filter
HopCandidates ==
    {k \in HopResolved : Has(store.sections, k) \/ Has(store.objects, k)}

\* a step that is one hop of the loop
HopTaken == pc = "refs" /\ pc' = "refs" /\ rq'.depth = rq.depth + 1

C23_VisitedAndRelevantOnlyGrow ==
    [][run' = run =>
         /\ rq.all_followed \subseteq rq'.all_followed
         /\ RelevantKeys \subseteq DOMAIN rq'.relevant_extracts.val]_vars

\* three hops were taken, the relevant extracts grew to four or more and an
\* id that was checked and found irrelevant is still visited
C23_GrewOverThreeHops ==
    /\ pc = "precedence"
    /\ rq.depth > MAX_REFERENCE_DEPTH
    /\ Cardinality(RelevantKeys) >= 4
    /\ rq.all_followed \ RelevantKeys # {}

\* C24: after the loop a reference is reported as unfollowed only if it is
\* attached to a relevant extract, no hop collected it and the depth cap
\* is exhausted; when the loop ended before the cap nothing is reported.
C24_UnfollowedOnlyBeyondCap ==
    pc \in {"precedence", "conflicts", "synthesize", "done"} =>
       /\ \A i \in Indices(rq.unfollowed) :
             /\ \E sid \in RelevantKeys :
                   rq.unfollowed[i] \in Range(Get(store.references, sid))
             /\ rq.unfollowed[i] \notin rq.collected
             /\ rq.depth > MAX_REFERENCE_DEPTH
       /\ (rq.depth <= MAX_REFERENCE_DEPTH => rq.unfollowed = <<>>)

\* C25: the index is built by the first resolve call and by no other; once
\* built, neither it nor the table of document codes changes, whatever is
\* uploaded, renamed or deleted and whichever query resolves next.
C25_IndexBuiltOnce ==
    /\ [](/\ resolved.builds <= 1
          /\ ref_index.built <=> resolved.builds = 1
          /\ ref_index.built <=> resolved.last # EmptyDict)
    /\ [][ref_index.built =>
            /\ ref_index' = ref_index
            /\ doc_code_to_prefix' = doc_code_to_prefix]_vars

\* the index was built, then EN 1990 was ingested and EN 1991-1 deleted,
\* and ids were resolved: the index still lists the deleted sections and
\* not the new one
C25_StoreChangedUnderIndex ==
    /\ ref_index.built
    /\ ingest = "ready"
    /\ Has(store.sections, Sec1990)
    /\ Sec1990 \notin DOMAIN ref_index.idx
    /\ \E k \in resolved.built_on : ~Has(store.sections, k)
    /\ Cardinality(DOMAIN resolved.last) >= 2

\* C26: every id of a section or object that was in the store when the
\* index was built resolves to itself, whatever other ids the store has.
C26_ExactMatchFirst ==
    \A k \in DOMAIN resolved.last :
        k \in resolved.built_on => resolved.last[k] = k

\* the precedence notes are attached: step 9 is done, synthesis is not
NotesAttached == pc \in {"conflicts", "synthesize"}

\* C27: every precedence note attached to the synthesis input has a key
\* that starts with the key prefix of a document that contributes a
\* relevant extract (a section or an object), and no two attached notes
\* have the same key.
C27_NotesOfContributingDocuments ==
    NotesAttached =>
       /\ \A i \in Indices(rq.unique_precedence) :
             \E d \in Indices(store.documents), sid \in RelevantKeys :
                /\ StartsWith(sid, store.documents[d].key_prefix)
                /\ StartsWith(rq.unique_precedence[i],
                              store.documents[d].key_prefix)
       /\ \A i, j \in Indices(rq.unique_precedence) :
             rq.unique_precedence[i] = rq.unique_precedence[j] => i = j

C29_AnswerWithinCap ==
    pc = "done" /\ calls.synthesis = 1 =>
       /\ result.answer.len <= ANSWER_CHAR_CAP + TRUNCATION_MARKER_CHARS
       /\ result.answer.kind = "llm" => result.answer.len <= ANSWER_CHAR_CAP
       /\ result.answer.kind = "llm_truncated" =>
             result.answer.len = ANSWER_CHAR_CAP + TRUNCATION_MARKER_CHARS

\* the stage, or the return, that may follow a stage of query()
StageThenStage ==
    { <<"start", "embed">>, <<"start", "chat">>, <<"chat", "done">>,
      <<"embed", "search">>, <<"embed", "failed">>, <<"search", "keywords">>,
      <<"keywords", "gather">>, <<"gather", "relevance">>,
      <<"gather", "done">>, <<"gather", "failed">>,
      <<"relevance", "expand">>, <<"expand", "expand">>, <<"expand", "refs">>,
      <<"refs", "refs">>, <<"refs", "precedence">>,
      <<"precedence", "conflicts">>, <<"conflicts", "synthesize">>,
      <<"synthesize", "done">> }

\* the stages in which a collaborator is called
StagesOfCall ==
    [k \in CallKinds |->
       CASE k = "classify"  -> {"start"}
         [] k = "chat"      -> {"chat"}
         [] k = "embed"     -> {"embed"}
         [] k = "search"    -> {"search", "expand"}
         [] k = "keywords"  -> {"keywords"}
         [] k = "relevance" -> {"relevance", "expand", "refs"}
         [] k = "hop"       -> {"refs"}
         [] k = "conflicts" -> {"conflicts"}
         [] k = "synthesis" -> {"synthesize"}]

\* C30: within one query the stages follow each other in the order
\* classify, embed, vector search, keyword search, relevance filter,
\* expansion, reference following, precedence, conflict detection,
\* synthesis; every call is made by the step of its own stage, and after
\* the synthesis call no call is made.
C30_StagesInOrder ==
    [][run' = run =>
         /\ (pc' # pc \/ rq' # rq \/ calls' # calls) =>
               <<pc, pc'>> \in StageThenStage
         /\ \A k \in CallKinds :
               calls'[k] # calls[k] => pc \in StagesOfCall[k]
         /\ calls.synthesis > 0 => calls' = calls]_vars

\* a request went through every stage, three hops included, and returned
C30_AllStagesPassed ==
    /\ pc = "done"
    /\ calls.classify = 1 /\ calls.embed = 1 /\ calls.keywords = 1
    /\ calls.search = 1 /\ calls.hop = 3 /\ calls.relevance = 4
    /\ calls.conflicts = 1 /\ calls.synthesis = 1

(***************************************************************************)
(* C31.  The candidate set is the duplicate-free union of the vector hit   *)
(* ids followed by the keyword hit ids in first-seen order, restricted to  *)
(* the ids that are in the store; an id found in sections is materialised  *)
(* from the section, otherwise from the object, and an id in neither is    *)
(* left out.                                                               *)
(***************************************************************************)
\* query() has merged its hits (line 221-237) and not touched the
\* candidates since
Merged == pc \in {"relevance", "expand"} \/ (pc = "done" /\ rq.intent # "chat")

C31_CandidatesAreMergedHits ==
    Merged =>
      LET hits == rq.vector_hits \o rq.keyword_hits
          keys == rq.candidates.keys
          FirstSeen(id) == Min({i \in Indices(hits) : hits[i] = id})
      IN  /\ Range(keys) = {id \in Range(hits) : Has(store.sections, id)
                                                  \/ Has(store.objects, id)}
          /\ \A i, j \in Indices(keys) :
               i < j => /\ keys[i] # keys[j]
                        /\ FirstSeen(keys[i]) < FirstSeen(keys[j])
          /\ \A id \in Range(keys) :
               rq.candidates.val[id] =
                 IF Has(store.sections, id) THEN store.sections.val[id]
                 ELSE ObjectAsSection(store.objects.val[id])

\* witness: a merge of vector hits and 20 keyword hits that share a
\* section, with a table materialised from its object and a vector hit
\* that is in the store no more
C31_MergedWithObjectAndGone ==
    /\ pc = "relevance"
    /\ Len(rq.keyword_hits) = KEYWORD_HIT_LIMIT
    /\ Range(rq.vector_hits) \cap Range(rq.keyword_hits) # {}
    /\ SecGone \in Range(rq.vector_hits) /\ ~Has(rq.candidates, SecGone)
    /\ Has(rq.candidates, ObjT) /\ ~Has(store.sections, ObjT)
    /\ Len(rq.candidates.keys) > KEYWORD_HIT_LIMIT

(***************************************************************************)
(* C32.  Keyword search returns at most 20 ids, each with a strictly       *)
(* positive score, in non-increasing score order, and omits no id whose    *)
(* score is strictly higher than that of a returned id; a title match      *)
(* weighs more than a body match (5 against 1 for each occurrence).        *)
(***************************************************************************)
\* the keywords the search of line 213 was given
SearchedKeywords == ExpandKeywordsWithKv(rq.keywords, store.kv_store)

\* the ids the keyword search looks at
Searched == Range(store.sections.keys) \cup Range(store.objects.keys)

\* the occurrences of the keywords in the body and in the title of a
\* section or an object
BodyMatches(id) ==
    LET body == IF Has(store.sections, id) THEN store.sections.val[id].content
                ELSE store.objects.val[id].description
    IN  SumSeq([i \in Indices(SearchedKeywords) |-> Count(body, SearchedKeywords[i])])

TitleMatches(id) ==
    LET title == IF Has(store.sections, id) THEN store.sections.val[id].title
                 ELSE store.objects.val[id].title
    IN  Cardinality({i \in Indices(SearchedKeywords) : SearchedKeywords[i] \in title})

Score(id) == BodyMatches(id) + TITLE_WEIGHT * TitleMatches(id)

C32_KeywordHitsRanked ==
    Merged =>
      LET hits == rq.keyword_hits
      IN  /\ Len(hits) <= 20
          /\ Range(hits) \subseteq Searched
          /\ \A i \in Indices(hits) : Score(hits[i]) > 0
          /\ \A i, j \in Indices(hits) : i < j => Score(hits[i]) >= Score(hits[j])
          /\ \A id \in Searched \ Range(hits) :
               \A i \in Indices(hits) : Score(id) <= Score(hits[i])
          /\ TITLE_WEIGHT > 1

\* witness: a search that cut its matches at 20 and left out a section with
\* a positive score, and that ranked a section with the keyword in its
\* title only above a section with the keyword in its body
C32_CutAtTwentyTitleFirst ==
    /\ pc = "relevance"
    /\ Len(rq.keyword_hits) = 20
    /\ \E id \in Searched \ Range(rq.keyword_hits) : Score(id) > 0
    /\ \E i, j \in Indices(rq.keyword_hits) :
         /\ i < j
         /\ BodyMatches(rq.keyword_hits[i]) = 0
         /\ TitleMatches(rq.keyword_hits[j]) = 0
         /\ Score(rq.keyword_hits[j]) < Score(rq.keyword_hits[i])

(***************************************************************************)
(* C33.  Every value in the map returned by the Relevance Filter is a      *)
(* non-null, non-empty extract, for batches answered by the LLM and for    *)
(* batches answered by the failure fallback alike.                         *)
(***************************************************************************)
C33_ExtractsNonEmpty ==
    \A k \in Range(rq.relevant_extracts.keys) :
        /\ rq.relevant_extracts.val[k] # Null
        /\ rq.relevant_extracts.val[k].len > 0

(***************************************************************************)
(* C34.  Both the classifier and the conversational reply generator        *)
(* receive the same windowed history: at most the last N = 10 messages of  *)
(* the conversation, for any history length.                               *)
(***************************************************************************)
C34_SameWindowedHistory ==
    /\ Len(rq.recent) <= CONVERSATION_CONTEXT_LIMIT
    /\ (pc = "done" /\ rq.intent = "chat") =>
         /\ Len(rq.chat_messages) <= CONVERSATION_CONTEXT_LIMIT
         /\ \A i \in Indices(rq.chat_messages) :
              /\ i \in Indices(rq.recent)
              /\ rq.chat_messages[i].role = rq.recent[i].role
              /\ rq.chat_messages[i].content = rq.recent[i].content

(***************************************************************************)
(* C36.  The keyword list derived from a query holds between 1 and 5       *)
(* terms, both when the LLM answers and when the regex/stop-word fallback  *)
(* is used after an LLM failure.                                           *)
(***************************************************************************)
C36_OneToFiveKeywords ==
    (pc = "gather" /\ rq.keywords_ok) => Len(rq.keywords) \in 1..5

(***************************************************************************)
(* C35.  For n > 0 candidates the Relevance Filter forms ceil(n/4) batches *)
(* of at most 4 candidates in which every candidate appears in exactly one *)
(* batch, and issues one LLM extraction call per batch, followed by a      *)
(* second call to the fallback model when the first reply is no JSON.      *)
(***************************************************************************)
\* the first relevance check has returned
Checked == pc = "expand" /\ rq.candidates.keys # <<>>

\* the batches of the first relevance check split its n candidates
SplitInBatches ==
    LET keys == rq.candidates.keys
        n    == Len(keys)
    IN  /\ Len(rq.batches) * RELEVANCE_BATCH_SIZE >= n
        /\ (Len(rq.batches) - 1) * RELEVANCE_BATCH_SIZE < n
        /\ \A b \in Indices(rq.batches) :
             Len(rq.batches[b]) \in 1..RELEVANCE_BATCH_SIZE
        /\ \A i \in Indices(keys) :
             Cardinality({bj \in {<<b, j>> : b \in Indices(rq.batches),
                                             j \in 1..RELEVANCE_BATCH_SIZE} :
                            /\ bj[2] <= Len(rq.batches[bj[1]])
                            /\ rq.batches[bj[1]][bj[2]] = keys[i]}) = 1
        /\ DOMAIN rq.extraction_calls = DOMAIN rq.batches

Owns(doc, key) ==
    doc.key_prefix # <<>> /\ StartsWith(key, doc.key_prefix \o <<"_">>)

\* the entries of the document are in the next state what they are now
EntriesKept(doc) ==
    /\ \A k \in DOMAIN store.sections.val :
         Owns(doc, k) => /\ Has(store'.sections, k)
                         /\ store'.sections.val[k] = store.sections.val[k]
    /\ \A k \in DOMAIN store.objects.val :
         Owns(doc, k) => /\ Has(store'.objects, k)
                         /\ store'.objects.val[k] = store.objects.val[k]
    /\ \A k \in DOMAIN store.references :
         Owns(doc, k) => /\ k \in DOMAIN store'.references
                         /\ store'.references[k] = store.references[k]
    /\ \A k \in DOMAIN store.precedence.val :
         Owns(doc, k) => /\ Has(store'.precedence, k)
                         /\ store'.precedence.val[k] = store.precedence.val[k]

C37_DeleteLeavesOthers ==
    [][\A d \in Range(store.documents) :
         d \notin Range(store'.documents) =>
           \A other \in Range(store.documents) \ {d} :
             /\ other \in Range(store'.documents)
             /\ EntriesKept(other)]_vars

(***************************************************************************)
(* C38.  Once delete_document(d) has returned, the store holds no document *)
(* record for d and no section, object, reference or precedence entry      *)
(* under d's key prefix, and this stays true afterwards, also when a       *)
(* background ingestion of d (process_pdf) is still running while the      *)
(* delete is served.                                                       *)
(***************************************************************************)
\* process_pdf has written the record of EN 1990 and the record is gone:
\* delete_document has returned for it (nothing else removes a record)
Deleted1990 ==
    /\ ingest \in {"record", "sections", "references", "vectors", "failed"}
    /\ \A i \in Indices(store.documents) : store.documents[i].id # Doc1990.id

C38_DeletedStaysDeleted ==
    Deleted1990 =>
      /\ KeysWithPrefix(store.sections, Prefix1990) = {}
      /\ KeysWithPrefix(store.objects, Prefix1990) = {}
      /\ KeysWithPrefix(store.precedence, Prefix1990) = {}
      /\ \A k \in DOMAIN store.references : ~StartsWith(k, Prefix1990)

(***************************************************************************)
(* C39.  A semaphore permit is taken before the first attempt of an LLM    *)
(* request, held through all its retries including the back-off sleeps,    *)
(* and released when the request returns or raises; after every started    *)
(* request has finished, all MAX_CONCURRENT_LLM permits are free again (no *)
(* permit leak, no deadlock).                                              *)
(***************************************************************************)
\* the followed request is between its first attempt and its return
Attempting == gemini.phase \in {"posting", "sleeping"}

C39_PermitHeldUntilExit ==
    /\ gemini.free \in 0..MAX_CONCURRENT_LLM
    /\ gemini.free = MAX_CONCURRENT_LLM - gemini.holders
                     - (IF Attempting THEN 1 ELSE 0)
    /\ gemini.phase \in {"idle", "waiting"} => gemini.statuses = <<>>
    /\ (gemini.phase \in {"returned", "raised"} /\ gemini.holders = 0) =>
          gemini.free = MAX_CONCURRENT_LLM
    /\ gemini.phase = "waiting" => gemini.free > 0 \/ gemini.holders > 0

\* witness: the request has slept three times and raised, ten other
\* requests have come and gone, and every permit is free
C39_AllPermitsFreeAfterRetries ==
    /\ Exhausted
    /\ gemini.waits = <<12, 24, 36>>
    /\ gemini.begun = MaxOthers
    /\ gemini.holders = 0
    /\ gemini.free = MAX_CONCURRENT_LLM

(***************************************************************************)
(* C40.  get_reference_graph(section, depth) terminates on cyclic          *)
(* reference graphs, and its result contains as a node every id reachable  *)
(* from the focus section by at most `depth` reference edges, independent  *)
(* of the order in which references are listed.                            *)
(***************************************************************************)
RECURSIVE Within(_, _)
\* the ids at most k reference edges away from the ids of S
Within(S, k) ==
    IF k = 0 THEN S
    ELSE Within(S \cup UNION {Range(Get(store.references, s)) : s \in S}, k - 1)

C40_GraphHoldsAllWithinDepth ==
    http.status = 200 =>
      Within({request.section_id}, request.depth)
        \subseteq {http.nodes[i].id : i \in Indices(http.nodes)}

=============================================================================
